---- MODULE Spec2Model ----
(***************************************************************************)
(* A model of the sstables-rs repository: the CBOR codec                   *)
(* (sstables/src/cbor.rs), the byte-stream primitives                      *)
(* (sstables/src/read.rs), the SSTable writer and reader                   *)
(* (sstables/src/sstable_writer.rs, sstables/src/sstable_reader.rs), the   *)
(* k-way merge (cli/src/merge.rs, sstable-cli/src/main.rs) and the get     *)
(* command (cli/src/cmd/get.rs, cli/src/main.rs).                          *)
(*                                                                         *)
(* Files are sequences of bytes (0..255).  Text keys and values are the    *)
(* sequences of their UTF-8 bytes.  Stream positions are 0-based byte      *)
(* offsets, as in the source.                                              *)
(***************************************************************************)
EXTENDS Integers, Sequences, FiniteSets, TLC

VARIABLES
  \* ---- SSTableWriter (sstable_writer.rs:150-156) and its two files
  data_writer,    \* BufWriter<File> of the data file: [file, buf, pos]
  index_writer,   \* BufWriter<File> of the index file: [file, buf, pos]
                  \*   file: the bytes on disk, buf: the bytes buffered and
                  \*   not yet on disk, pos: the cursor of the file handle
  buffer_size,    \* capacity of both BufWriters (builder's buffer_size)
  kv_type,        \* the type parameter T of SSTableWriter<T>, SSTableReader<T>
                  \*   and SSTableIndex<T>: "text" for (String, String),
                  \*   "bytes" for (Vec<u8>, Vec<u8>)
  wstate,         \* "open" | "closed" : the writer's lifecycle
  session,        \* the writer's number and what the table held when it was built
  last_op,        \* the writer/reader operation that produced this state
  appended,       \* history: the (key, value) records appended so far
  \* ---- SSTableReader (sstable_reader.rs:86-89) and SSTableIndex (12-14)
  rd,             \* the reader: [open, pos, sought, log, ended]
  sstable_index,  \* the loaded index: [loaded, result, indices]
  \* ---- merge (cli/src/merge.rs, sstable-cli/src/main.rs)
  mg,             \* the merge run
  \* ---- get (cli/src/cmd/get.rs, cli/src/main.rs)
  gt,             \* the get run
  \* ---- the pure functions of the codec (sstables/src/cbor.rs)
  cb,             \* the inputs drawn for them and the result of the last call
  \* ---- dump (cli/src/main.rs) and info (cli/src/info.rs)
  dump,           \* the dump run
  info            \* the info run

vars == <<data_writer, index_writer, buffer_size, kv_type, wstate, session, last_op,
          appended, rd, sstable_index, mg, gt, cb, dump, info>>

writer_vars == <<data_writer, index_writer, buffer_size, kv_type, wstate, session, appended>>

(***************************************************************************)
(* Bounds of the model.                                                    *)
(***************************************************************************)
\* records appended by one writer
MaxRecords == 3
\* the small BufWriter capacity tried next to the default one
SmallBufferSize == 4
\* writers built on one table, one after the other
MaxSessions == 2
\* length of the value that pushes offsets and lengths past the embedded range
LongLen == 24

\* "aa" and "b" as UTF-8: natural order puts "aa" first, the canonical CBOR
\* order (shorter encoding first) puts "b" first
Keys == {<<97, 97>>, <<98>>}
\* a value of LongLen bytes: its head and the offsets after it need a
\* following byte (size class U8)
LongValue == [i \in 1..LongLen |-> 50]
\* '1', and the long value
Values == {<<49>>, LongValue}

(***************************************************************************)
(* Helpers on sequences.                                                   *)
(***************************************************************************)
Max2(a, b) == IF a >= b THEN a ELSE b

\* bytes[from+1 .. from+n], for a 0-based offset `from`
Slice(bytes, from, n) == [i \in 1..n |-> bytes[from + i]]

\* the value of a one-element set: { body : x \in {value} } binds x to a
\* value computed once
TheOnly(S) == CHOOSE x \in S : TRUE

RECURSIVE Pow256(_)
Pow256(n) == IF n = 0 THEN 1 ELSE 256 * Pow256(n - 1)

\* lexicographic comparison of byte strings: Ord for String, Vec<u8>, [u8]
\* -1 less, 0 equal, 1 greater
RECURSIVE BytesCmp(_, _)
BytesCmp(a, b) ==
  IF a = <<>> /\ b = <<>> THEN 0
  ELSE IF a = <<>> THEN -1
  ELSE IF b = <<>> THEN 1
  ELSE IF Head(a) < Head(b) THEN -1
  ELSE IF Head(a) > Head(b) THEN 1
  ELSE BytesCmp(Tail(a), Tail(b))

(***************************************************************************)
(* CBOR codec: sstables/src/cbor.rs                                        *)
(***************************************************************************)
FIRST_THREE_BITS == 224
LAST_FIVE_BITS == 31
EMBEDDED_MAX_AS_U64 == 23
U8_MAX == 255
U16_MAX == 65535

MajorType_UnsignedInteger == 0
MajorType_Bytes == 64
MajorType_Text == 96

\* byte & LAST_FIVE_BITS
get_embedded_value(byte) == byte % (LAST_FIVE_BITS + 1)

\* ExtendedSize::from_u8: the number of bytes that follow the initial byte;
\* every low-five-bits value outside 24..=27 is ExtendedSize::Embedded (0 bytes)
ExtendedSize_from_u8(value) ==
  LET v == value % (LAST_FIVE_BITS + 1) IN
  IF v = 24 THEN 1
  ELSE IF v = 25 THEN 2
  ELSE IF v = 26 THEN 4
  ELSE IF v = 27 THEN 8
  ELSE 0

\* A u64 is kept as its eight big-endian bytes: the integers of the model
\* checker are 32 bits wide, and the size classes of the head reach past
\* them.  The order of u64 values is the lexicographic order of these bytes.
\* `n as u64` for a usize n of the model (below 2^31)
as_u64(n) == <<0, 0, 0, 0>> \o [i \in 1..4 |-> (n \div Pow256(4 - i)) % 256]

\* a length or position no file of the model reaches: 2^31 - 1
UsizeBeyondFiles == (127 * Pow256(3)) + (Pow256(3) - 1)

\* `value as usize` where the value is used as a length or a position; a
\* value of 2^31 or more is kept as UsizeBeyondFiles
as_usize(value) ==
  IF SubSeq(value, 1, 4) = <<0, 0, 0, 0>> /\ value[5] < 128
  THEN value[5] * Pow256(3) + value[6] * Pow256(2) + value[7] * 256 + value[8]
  ELSE UsizeBeyondFiles

\* a <= b on u64
u64_le(a, b) == BytesCmp(a, b) <= 0

\* u32::MAX as u64 (cbor.rs:44)
U32_MAX == <<0, 0, 0, 0, 255, 255, 255, 255>>

\* get_embedded_value_for_u64 compared with < where the source has <=
get_embedded_value_for_u64_Strict(value) ==
  IF u64_le(value, as_u64(EMBEDDED_MAX_AS_U64)) THEN value[8]
  ELSE IF u64_le(value, as_u64(U8_MAX - 1)) THEN 24
  ELSE IF u64_le(value, as_u64(U16_MAX - 1)) THEN 25
  ELSE IF u64_le(value, U32_MAX) /\ value # U32_MAX THEN 26
  ELSE 27

\* the low five bits of the initial byte written for `value`
get_embedded_value_for_u64(value) ==
  IF u64_le(value, as_u64(EMBEDDED_MAX_AS_U64)) THEN value[8]
  ELSE IF u64_le(value, as_u64(U8_MAX)) THEN 24
  ELSE IF u64_le(value, as_u64(U16_MAX)) THEN 25
  ELSE IF u64_le(value, U32_MAX) THEN 26
  ELSE 27

get_num_bytes_for_u64(value) ==
  IF u64_le(value, as_u64(EMBEDDED_MAX_AS_U64)) THEN 0
  ELSE IF u64_le(value, as_u64(U8_MAX)) THEN 1
  ELSE IF u64_le(value, as_u64(U16_MAX)) THEN 2
  ELSE IF u64_le(value, U32_MAX) THEN 4
  ELSE 8

\* value.to_be_bytes()[8 - n ..]: the low n bytes of value, big-endian
to_be_bytes(value, n) == SubSeq(value, 9 - n, 8)

\* from_be_bytes read the bytes in little-endian order
from_be_bytes_Reversed(bytes) ==
  [i \in 1..(8 - Len(bytes)) |-> 0] \o [i \in 1..Len(bytes) |-> bytes[Len(bytes) + 1 - i]]

\* u8/u16/u32::from_be_bytes(..).into(), u64::from_be_bytes(..)
from_be_bytes(bytes) == [i \in 1..(8 - Len(bytes)) |-> 0] \o bytes

\* write_cbor_head, as the sequence of its write_all calls on the writer
write_cbor_head(major_type, value) ==
  LET num_bytes == get_num_bytes_for_u64(value) IN
  <<  << major_type + get_embedded_value_for_u64(value) >>  >>
  \o (IF num_bytes > 0 THEN << to_be_bytes(value, num_bytes) >> ELSE <<>>)

\* write_cbor_text, as the sequence of its write_all calls on the writer
write_cbor_text(text) ==
  write_cbor_head(MajorType_Text, as_u64(Len(text))) \o << text >>

write_cbor_bytes(bytes) ==
  write_cbor_head(MajorType_Bytes, as_u64(Len(bytes))) \o << bytes >>

write_cbor_unsigned_integer(value) ==
  write_cbor_head(MajorType_UnsignedInteger, value)

\* the bytes a sequence of write_all calls leaves in a Cursor<Vec<u8>>
RECURSIVE Flatten(_)
Flatten(chunks) ==
  IF chunks = <<>> THEN <<>> ELSE Head(chunks) \o Flatten(Tail(chunks))

(***************************************************************************)
(* Byte-stream primitives: sstables/src/read.rs.  A read is a function of  *)
(* the file's bytes and the stream position; it returns                    *)
(* [ok, val, pos] or [ok |-> FALSE, kind, pos].  read_exact that cannot be *)
(* satisfied consumes what is left and fails with UnexpectedEof.           *)
(***************************************************************************)
Eof(file, pos) ==
  [ok |-> FALSE, kind |-> "UnexpectedEof", val |-> <<>>, pos |-> Max2(pos, Len(file))]

take_byte(file, pos) ==
  IF pos + 1 <= Len(file)
  THEN [ok |-> TRUE, kind |-> "", val |-> file[pos + 1], pos |-> pos + 1]
  ELSE Eof(file, pos)

take_byte_array(file, pos, C) ==
  IF C <= Len(file) - pos
  THEN [ok |-> TRUE, kind |-> "", val |-> Slice(file, pos, C), pos |-> pos + C]
  ELSE Eof(file, pos)

take_byte_slice(file, pos, len) ==
  IF len <= Len(file) - pos
  THEN [ok |-> TRUE, kind |-> "", val |-> Slice(file, pos, len), pos |-> pos + len]
  ELSE Eof(file, pos)

\* read_cbor_head_u64 refused the low five bits 28..=31
read_cbor_head_u64_RejectsReserved(file, pos, byte) ==
  LET n == ExtendedSize_from_u8(byte) IN
  IF get_embedded_value(byte) >= 28
  THEN [ok |-> FALSE, kind |-> "Other", val |-> <<>>, pos |-> pos]
  ELSE IF n = 0
  THEN [ok |-> TRUE, kind |-> "", val |-> as_u64(get_embedded_value(byte)), pos |-> pos]
  ELSE LET a == take_byte_array(file, pos, n) IN
       IF a.ok THEN [a EXCEPT !.val = from_be_bytes(a.val)] ELSE a

\* read_cbor_head_u64: the value of the head whose initial byte is `byte`
read_cbor_head_u64(file, pos, byte) ==
  LET n == ExtendedSize_from_u8(byte) IN
  IF n = 0
  THEN [ok |-> TRUE, kind |-> "", val |-> as_u64(get_embedded_value(byte)), pos |-> pos]
  ELSE LET a == take_byte_array(file, pos, n) IN
       IF a.ok THEN [a EXCEPT !.val = from_be_bytes(a.val)] ELSE a

read_cbor_u64(file, pos) ==
  LET byte == take_byte(file, pos) IN
  IF ~byte.ok THEN byte ELSE read_cbor_head_u64(file, byte.pos, byte.val)

read_cbor_bytes(file, pos) ==
  LET byte == take_byte(file, pos) IN
  IF ~byte.ok THEN byte
  ELSE LET len == read_cbor_head_u64(file, byte.pos, byte.val) IN
       IF ~len.ok THEN len ELSE take_byte_slice(file, len.pos, as_usize(len.val))

\* String::from_utf8 succeeds.  The bytes of the model are ASCII or 0xFF, and
\* 0xFF occurs in no valid UTF-8 string.
IsUtf8(bytes) == \A i \in 1..Len(bytes) : bytes[i] < 128

read_cbor_text(file, pos) ==
  TheOnly({
    IF ~byte.ok THEN byte
    ELSE TheOnly({
           IF ~len.ok THEN len
           ELSE TheOnly({
                  IF ~bytes.ok THEN bytes
                  ELSE IF IsUtf8(bytes.val) THEN bytes
                  ELSE [ok |-> FALSE, kind |-> "Other", val |-> <<>>, pos |-> bytes.pos]
                  : bytes \in {take_byte_slice(file, len.pos, as_usize(len.val))}})
           : len \in {read_cbor_head_u64(file, byte.pos, byte.val)}})
    : byte \in {take_byte(file, pos)}})

(***************************************************************************)
(* BufWriter<File> over a file opened in append mode (read.rs:118-125).    *)
(* A writer is [file, buf, pos].                                           *)
(***************************************************************************)
DEFAULT_BUFFER_SIZE == 8 * 1024

\* a write of the file handle: O_APPEND puts the bytes at the end of the file
\* and leaves the cursor there
FileWrite(w, bytes) ==
  IF bytes = <<>> THEN w
  ELSE [w EXCEPT !.file = w.file \o bytes, !.pos = Len(w.file) + Len(bytes)]

\* BufWriter::flush: the buffered bytes go to the file
BufFlush(w) == [FileWrite(w, w.buf) EXCEPT !.buf = <<>>]

\* mutant: a write that bypasses the buffer does not flush the buffer first
BufWriteAll_NoFlushBeforeDirect(w, bytes, cap) ==
  IF Len(bytes) < cap - Len(w.buf)
  THEN [w EXCEPT !.buf = w.buf \o bytes]
  ELSE IF Len(bytes) >= cap
       THEN FileWrite(w, bytes)
       ELSE [BufFlush(w) EXCEPT !.buf = bytes]

\* BufWriter::write_all(bytes) with capacity cap
BufWriteAll(w, bytes, cap) ==
  IF Len(bytes) < cap - Len(w.buf)
  THEN [w EXCEPT !.buf = w.buf \o bytes]
  ELSE LET w1 == IF Len(bytes) > cap - Len(w.buf) THEN BufFlush(w) ELSE w IN
       IF Len(bytes) >= cap
       THEN FileWrite(w1, bytes)
       ELSE [w1 EXCEPT !.buf = w1.buf \o bytes]

\* a sequence of write_all calls, in order
RECURSIVE BufWriteChunks(_, _, _)
BufWriteChunks(w, chunks, cap) ==
  IF chunks = <<>> THEN w
  ELSE BufWriteChunks(BufWriteAll(w, Head(chunks), cap), Tail(chunks), cap)

\* BufWriter::with_capacity on OpenOptions::new().create(true).append(true)
\* .open(path): the bytes already on disk, an empty buffer, the cursor of the
\* new file handle at 0
open_append(file) == [file |-> file, buf |-> <<>>, pos |-> 0]

\* BufWriter::seek(SeekFrom::End(0)): flush, then the cursor goes to the end
seek_end(w) == LET w1 == BufFlush(w) IN [w1 EXCEPT !.pos = Len(w1.file)]

\* get_file_writer left the cursor where open put it
get_file_writer_NoSeek(file) == open_append(file)

\* get_file_writer: open in append-create mode and seek to the end
get_file_writer(file) == seek_end(open_append(file))

\* mutant: the cursor of the file handle, read without flushing the buffer
stream_position_NoFlush(w) == w

\* BufWriter::stream_position: Seek::seek(Current(0)) flushes the buffer and
\* returns the cursor of the file handle
stream_position(w) == BufFlush(w)

(***************************************************************************)
(* SSTableWriter: sstables/src/sstable_writer.rs                           *)
(***************************************************************************)
\* mutant: the offset is taken after the key has been written
SSTableWriter_append_OffsetAfterKey(dw, iw, cap, key, value) ==
  LET dw0 == stream_position(dw)
      dw1 == BufWriteChunks(dw0, write_cbor_text(key), cap)
      initial_offset == stream_position(dw1).pos
      dw2 == BufWriteChunks(dw1, write_cbor_text(value), cap)
      iw1 == BufWriteChunks(iw, write_cbor_text(key), cap)
      iw2 == BufWriteChunks(iw1,
               write_cbor_head(MajorType_UnsignedInteger, as_u64(initial_offset)), cap)
  IN  [data_writer |-> dw2, index_writer |-> iw2]

\* SSTableWriterAppend<(&str, &str)>::append, on the pair of writers
SSTableWriter_append(dw, iw, cap, key, value) ==
  LET dw0            == stream_position(dw)
      initial_offset == dw0.pos
      dw1 == BufWriteChunks(dw0, write_cbor_text(key), cap)
      dw2 == BufWriteChunks(dw1, write_cbor_text(value), cap)
      iw1 == BufWriteChunks(iw, write_cbor_text(key), cap)
      iw2 == BufWriteChunks(iw1,
               write_cbor_head(MajorType_UnsignedInteger, as_u64(initial_offset)), cap)
  IN  [data_writer |-> dw2, index_writer |-> iw2]

\* SSTableWriterAppend<(&[u8], &[u8])>::append, on the pair of writers
SSTableWriter_append_bytes(dw, iw, cap, key, value) ==
  LET dw0            == stream_position(dw)
      initial_offset == dw0.pos
      dw1 == BufWriteChunks(dw0, write_cbor_bytes(key), cap)
      dw2 == BufWriteChunks(dw1, write_cbor_bytes(value), cap)
      iw1 == BufWriteChunks(iw, write_cbor_bytes(key), cap)
      iw2 == BufWriteChunks(iw1,
               write_cbor_head(MajorType_UnsignedInteger, as_u64(initial_offset)), cap)
  IN  [data_writer |-> dw2, index_writer |-> iw2]

\* writer.append(entry): the impl of SSTableWriterAppend<T> for the writer's T
SSTableWriterAppend_append(T, dw, iw, cap, key, value) ==
  IF T = "bytes" THEN SSTableWriter_append_bytes(dw, iw, cap, key, value)
  ELSE SSTableWriter_append(dw, iw, cap, key, value)

\* the writer after a write_all(bytes) that returned an error: BufWriter
\* touches the file to empty a buffer the bytes do not fit behind, and to
\* write bytes as long as the buffer directly; the error is the error of
\* one of these writes, and bytes that only go into the buffer cannot fail
BufWriteAll_Err(w, bytes, cap) ==
  IF Len(bytes) < cap - Len(w.buf) THEN {}
  ELSE LET flushes == Len(bytes) > cap - Len(w.buf)
           w1 == IF flushes THEN BufFlush(w) ELSE w
       IN  (IF flushes /\ w.buf # <<>> THEN {w} ELSE {})
             \cup (IF Len(bytes) >= cap /\ bytes # <<>> THEN {w1} ELSE {})

\* the writers a sequence of write_all calls can leave when one of them
\* returns an error (`?` in write_cbor_head and write_cbor_text)
RECURSIVE BufWriteChunks_Err(_, _, _)
BufWriteChunks_Err(w, chunks, cap) ==
  IF chunks = <<>> THEN {}
  ELSE BufWriteAll_Err(w, Head(chunks), cap)
         \cup BufWriteChunks_Err(BufWriteAll(w, Head(chunks), cap), Tail(chunks), cap)

\* the four sub-writes of append((key, value)) of a writer of kind T:
\* [to, chunks], to "data" or "index"
append_sub_writes(T, key, value, initial_offset) ==
  LET enc(x) == IF T = "text" THEN write_cbor_text(x) ELSE write_cbor_bytes(x)
  IN  << [to |-> "data",  chunks |-> enc(key)],
         [to |-> "data",  chunks |-> enc(value)],
         [to |-> "index", chunks |-> enc(key)],
         [to |-> "index", chunks |-> write_cbor_head(MajorType_UnsignedInteger,
                                                      as_u64(initial_offset))] >>

\* one sub-write that returns Ok, on the pair of writers
sub_write(ws, sub, cap) ==
  IF sub.to = "data"
  THEN [ws EXCEPT !.data_writer = BufWriteChunks(ws.data_writer, sub.chunks, cap)]
  ELSE [ws EXCEPT !.index_writer = BufWriteChunks(ws.index_writer, sub.chunks, cap)]

RECURSIVE sub_writes(_, _, _)
sub_writes(ws, subs, cap) ==
  IF subs = <<>> THEN ws ELSE sub_writes(sub_write(ws, Head(subs), cap), Tail(subs), cap)

\* the pairs of writers a sub-write that returns an error can leave
sub_write_Err(ws, sub, cap) ==
  IF sub.to = "data"
  THEN {[ws EXCEPT !.data_writer = w] : w \in BufWriteChunks_Err(ws.data_writer, sub.chunks, cap)}
  ELSE {[ws EXCEPT !.index_writer = w] : w \in BufWriteChunks_Err(ws.index_writer, sub.chunks, cap)}

\* the later sub-writes ran although one had failed
and_then_after_Err_Runs(later) == later

\* Result::and_then on an Err: the closures of the later sub-writes are not
\* called
and_then_after_Err(later) == <<>>

\* append((key, value)) whose k-th sub-write returns an error: the sets of
\* [data_writer, index_writer, k] it can leave
SSTableWriterAppend_append_Err(T, dw, iw, cap, key, value) ==
  LET dw0  == stream_position(dw)
      subs == append_sub_writes(T, key, value, dw0.pos)
      ws0  == [data_writer |-> dw0, index_writer |-> iw]
  IN  UNION {
        {[data_writer  |-> after.data_writer,
          index_writer |-> after.index_writer,
          k            |-> k] :
           after \in {sub_writes(failed, and_then_after_Err(SubSeq(subs, k + 1, Len(subs))), cap) :
                        failed \in sub_write_Err(sub_writes(ws0, SubSeq(subs, 1, k - 1), cap),
                                                 subs[k], cap)}}
        : k \in 1..Len(subs)}

\* mutant: only the data writer is flushed
SSTableWriter_flush_DataOnly(dw, iw) ==
  [data_writer |-> BufFlush(dw), index_writer |-> iw]

\* SSTableWriter::flush (sync_all of close changes no byte)
SSTableWriter_flush(dw, iw) ==
  [data_writer |-> BufFlush(dw), index_writer |-> BufFlush(iw)]

\* close synced the files without flushing the buffers
SSTableWriter_close_SyncOnly(dw, iw) ==
  [data_writer |-> dw, index_writer |-> iw]

\* SSTableWriter::close: flush, then sync_all of both files, which hands the
\* files' bytes to the device and changes none of them
SSTableWriter_close(dw, iw) == SSTableWriter_flush(dw, iw)

(***************************************************************************)
(* SSTableReader and SSTableIndex: sstables/src/sstable_reader.rs          *)
(***************************************************************************)
NoKV == <<>>

\* Iterator::next for SSTableReader<(String, String)>:
\* [item |-> "None" | "Ok" | "Err", key, value, pos]
SSTableReader_next(file, pos) ==
  TheOnly({
    IF k.ok
    THEN TheOnly({
           IF v.ok
           THEN [item |-> "Ok", key |-> k.val, value |-> v.val, pos |-> v.pos]
           ELSE IF v.kind = "UnexpectedEof"
           THEN [item |-> "None", key |-> NoKV, value |-> NoKV, pos |-> v.pos]
           ELSE [item |-> "Err", key |-> NoKV, value |-> NoKV, pos |-> v.pos]
           : v \in {read_cbor_text(file, k.pos)}})
    ELSE IF k.kind = "UnexpectedEof"
    THEN [item |-> "None", key |-> NoKV, value |-> NoKV, pos |-> k.pos]
    ELSE [item |-> "Err", key |-> NoKV, value |-> NoKV, pos |-> k.pos]
    : k \in {read_cbor_text(file, pos)}})

\* Iterator::next for SSTableReader<(Vec<u8>, Vec<u8>)>
SSTableReader_next_bytes(file, pos) ==
  LET k == read_cbor_bytes(file, pos) IN
  IF k.ok
  THEN LET v == read_cbor_bytes(file, k.pos) IN
       IF v.ok
       THEN [item |-> "Ok", key |-> k.val, value |-> v.val, pos |-> v.pos]
       ELSE IF v.kind = "UnexpectedEof"
       THEN [item |-> "None", key |-> NoKV, value |-> NoKV, pos |-> v.pos]
       ELSE [item |-> "Err", key |-> NoKV, value |-> NoKV, pos |-> v.pos]
  ELSE IF k.kind = "UnexpectedEof"
  THEN [item |-> "None", key |-> NoKV, value |-> NoKV, pos |-> k.pos]
  ELSE [item |-> "Err", key |-> NoKV, value |-> NoKV, pos |-> k.pos]

\* sstable.next(): the impl of Iterator for the reader's T
Iterator_next(T, file, pos) ==
  IF T = "bytes" THEN SSTableReader_next_bytes(file, pos)
  ELSE SSTableReader_next(file, pos)

\* the loop took a failed read for the end of the file
RECURSIVE from_path_loop_ErrorEndsLoop(_, _, _)
from_path_loop_ErrorEndsLoop(buffer, pos, indices) ==
  IF ~(pos < Len(buffer))
  THEN [ok |-> TRUE, kind |-> "", indices |-> indices]
  ELSE LET k == read_cbor_text(buffer, pos) IN
       IF ~k.ok THEN [ok |-> TRUE, kind |-> "", indices |-> indices]
       ELSE LET o == read_cbor_u64(buffer, k.pos) IN
            IF ~o.ok THEN [ok |-> TRUE, kind |-> "", indices |-> indices]
            ELSE from_path_loop_ErrorEndsLoop(buffer, o.pos,
                   Append(indices, [key |-> k.val, offset |-> as_usize(o.val)]))

\* the loop of SSTableIndexFromPath<(String, u64)>::from_path from cursor
\* position pos, with the entries pushed so far.  The offsets of the entries
\* are kept as integers of the model (as_usize): they are positions to seek to.
RECURSIVE from_path_loop(_, _, _)
from_path_loop(buffer, pos, indices) ==
  IF ~(pos < Len(buffer))
  THEN [ok |-> TRUE, kind |-> "", indices |-> indices]
  ELSE LET k == read_cbor_text(buffer, pos) IN
       IF ~k.ok THEN [ok |-> FALSE, kind |-> k.kind, indices |-> <<>>]
       ELSE LET o == read_cbor_u64(buffer, k.pos) IN
            IF ~o.ok THEN [ok |-> FALSE, kind |-> o.kind, indices |-> <<>>]
            ELSE from_path_loop(buffer, o.pos,
                                Append(indices, [key |-> k.val, offset |-> as_usize(o.val)]))

\* SSTableIndexFromPath<(String, u64)>::from_path on the bytes of the file
SSTableIndex_from_path(buffer) == from_path_loop(buffer, 0, <<>>)

\* the loop of SSTableIndexFromPath<(Vec<u8>, u64)>::from_path
RECURSIVE from_path_loop_bytes(_, _, _)
from_path_loop_bytes(buffer, pos, indices) ==
  IF ~(pos < Len(buffer))
  THEN [ok |-> TRUE, kind |-> "", indices |-> indices]
  ELSE LET k == read_cbor_bytes(buffer, pos) IN
       IF ~k.ok THEN [ok |-> FALSE, kind |-> k.kind, indices |-> <<>>]
       ELSE LET o == read_cbor_u64(buffer, k.pos) IN
            IF ~o.ok THEN [ok |-> FALSE, kind |-> o.kind, indices |-> <<>>]
            ELSE from_path_loop_bytes(buffer, o.pos,
                                      Append(indices, [key |-> k.val, offset |-> as_usize(o.val)]))

\* SSTableIndexFromPath<(Vec<u8>, u64)>::from_path on the bytes of the file
SSTableIndex_from_path_bytes(buffer) == from_path_loop_bytes(buffer, 0, <<>>)

\* SSTableIndex::<T>::from_path: the impl of SSTableIndexFromPath for T
SSTableIndexFromPath_from_path(T, buffer) ==
  IF T = "bytes" THEN SSTableIndex_from_path_bytes(buffer)
  ELSE SSTableIndex_from_path(buffer)

\* the items a reader yields from position pos until it ends, at most fuel
\* items (every Ok item consumes at least two bytes)
RECURSIVE ReadAll(_, _, _, _)
ReadAll(T, file, pos, fuel) ==
  LET r == Iterator_next(T, file, pos) IN
  IF fuel = 0 \/ r.item # "Ok" THEN <<>>
  ELSE << <<r.key, r.value>> >> \o ReadAll(T, file, r.pos, fuel - 1)

(***************************************************************************)
(* Idle values of the parts of the state a specification does not use.     *)
(***************************************************************************)
NoReader == [open |-> FALSE, pos |-> 0, sought |-> 0, log |-> <<>>, ended |-> FALSE]
NoIndex  == [loaded |-> FALSE, ok |-> TRUE, indices |-> <<>>]
NoMerge  == [state |-> "idle"]
NoGet    == [state |-> "idle"]
NoCbor   == [op |-> "idle"]
NoDump   == [state |-> "idle"]
NoInfo   == [state |-> "idle"]

\* no append of the writer has failed
NoFailure == [k |-> 0, key |-> <<>>, value |-> <<>>]

\* the writer built on a table that does not exist yet
FirstSession == [n |-> 1, base |-> 0, data |-> <<>>, index |-> <<>>, failed |-> NoFailure]

(***************************************************************************)
(* Spec: one writer on a fresh table (SSTableWriterBuilder::build,         *)
(* append, flush, close), then the index loader and a reader on the        *)
(* closed table.                                                           *)
(***************************************************************************)
Init ==
  /\ data_writer = get_file_writer(<<>>)
  /\ index_writer = get_file_writer(<<>>)
  /\ buffer_size \in {DEFAULT_BUFFER_SIZE, SmallBufferSize}
  /\ kv_type \in {"text", "bytes"}
  /\ wstate = "open"
  /\ last_op = "build"
  /\ appended = <<>>
  /\ rd = NoReader
  /\ sstable_index = NoIndex
  /\ mg = NoMerge
  /\ gt = NoGet
  /\ cb = NoCbor
  /\ dump = NoDump
  /\ info = NoInfo
  /\ session = FirstSession

\* writer.append((key, value))
WriterAppend ==
  /\ wstate = "open"
  /\ Len(appended) < MaxRecords
  /\ \E key \in Keys, value \in Values :
       LET w == SSTableWriterAppend_append(kv_type, data_writer, index_writer,
                                           buffer_size, key, value) IN
       /\ data_writer' = w.data_writer
       /\ index_writer' = w.index_writer
       /\ appended' = Append(appended, <<key, value>>)
  /\ last_op' = "append"
  /\ UNCHANGED <<buffer_size, kv_type, wstate, session, rd, sstable_index, mg, gt, cb, dump, info>>

\* writer.append((key, value)) returns Err: one of its sub-writes failed.
\* The caller is left with a writer on a table it has to discard.
WriterAppendErr ==
  /\ wstate = "open"
  /\ Len(appended) < MaxRecords
  /\ \E key \in Keys, value \in Values :
       \E w \in SSTableWriterAppend_append_Err(kv_type, data_writer, index_writer,
                                               buffer_size, key, value) :
         /\ data_writer' = w.data_writer
         /\ index_writer' = w.index_writer
         /\ session' = [session EXCEPT !.failed = [k |-> w.k, key |-> key, value |-> value]]
  /\ wstate' = "failed"
  /\ last_op' = "append_err"
  /\ UNCHANGED <<buffer_size, kv_type, appended, rd, sstable_index, mg, gt, cb, dump, info>>

\* writer.flush()
WriterFlush ==
  /\ wstate = "open"
  /\ last_op = "append"
  /\ LET w == SSTableWriter_flush(data_writer, index_writer) IN
       /\ data_writer' = w.data_writer
       /\ index_writer' = w.index_writer
  /\ last_op' = "flush"
  /\ UNCHANGED <<buffer_size, kv_type, wstate, session, appended, rd, sstable_index, mg, gt, cb, dump, info>>

\* writer.close()
WriterClose ==
  /\ wstate = "open"
  /\ LET w == SSTableWriter_close(data_writer, index_writer) IN
       /\ data_writer' = w.data_writer
       /\ index_writer' = w.index_writer
  /\ wstate' = "closed"
  /\ last_op' = "close"
  /\ UNCHANGED <<buffer_size, kv_type, session, appended, rd, sstable_index, mg, gt, cb, dump, info>>

\* SSTableWriterBuilder::new(data path).buffer_size(cap).build() on the table
\* an earlier writer has closed; readers and indexes are opened anew
WriterBuildOnExisting ==
  /\ wstate = "closed"
  /\ session.n < MaxSessions
  /\ Len(appended) < MaxRecords
  /\ \E cap \in {DEFAULT_BUFFER_SIZE, SmallBufferSize} : buffer_size' = cap
  /\ data_writer' = get_file_writer(data_writer.file)
  /\ index_writer' = get_file_writer(index_writer.file)
  /\ wstate' = "open"
  /\ session' = [n |-> session.n + 1, base |-> Len(appended),
                 data |-> data_writer.file, index |-> index_writer.file,
                 failed |-> NoFailure]
  /\ rd' = NoReader
  /\ sstable_index' = NoIndex
  /\ last_op' = "build"
  /\ UNCHANGED <<kv_type, appended, mg, gt, cb, dump, info>>

\* SSTableIndex::<T>::from_path(index path)
IndexFromPath ==
  /\ wstate = "closed"
  /\ ~sstable_index.loaded
  /\ LET r == SSTableIndexFromPath_from_path(kv_type, index_writer.file) IN
       sstable_index' = [loaded |-> TRUE, ok |-> r.ok, indices |-> r.indices]
  /\ last_op' = "load_index"
  /\ UNCHANGED <<writer_vars, rd, mg, gt, cb, dump, info>>

\* SSTableReader::<T>::from_path(data path)
ReaderFromPath ==
  /\ wstate = "closed"
  /\ ~rd.open
  /\ rd' = [NoReader EXCEPT !.open = TRUE]
  /\ last_op' = "open_reader"
  /\ UNCHANGED <<writer_vars, sstable_index, mg, gt, cb, dump, info>>

\* sstable.seek(offset of the i-th entry of the loaded index)
ReaderSeek ==
  /\ rd.open
  /\ sstable_index.loaded
  /\ \E i \in 1..Len(sstable_index.indices) :
       rd' = [open |-> TRUE, pos |-> sstable_index.indices[i].offset,
              sought |-> i, log |-> <<>>, ended |-> FALSE]
  /\ last_op' = "seek"
  /\ UNCHANGED <<writer_vars, sstable_index, mg, gt, cb, dump, info>>

\* sstable.next()
ReaderNext ==
  /\ rd.open
  /\ ~rd.ended
  /\ LET r == Iterator_next(kv_type, data_writer.file, rd.pos) IN
       rd' = [rd EXCEPT !.pos = r.pos,
                        !.log = Append(rd.log, [at |-> rd.pos, item |-> r.item,
                                                 key |-> r.key, value |-> r.value]),
                        !.ended = (r.item # "Ok")]
  /\ last_op' = "next"
  /\ UNCHANGED <<writer_vars, sstable_index, mg, gt, cb, dump, info>>

Next ==
  \/ WriterAppend
  \/ WriterAppendErr
  \/ WriterFlush
  \/ WriterClose
  \/ WriterBuildOnExisting
  \/ IndexFromPath
  \/ ReaderFromPath
  \/ ReaderSeek
  \/ ReaderNext

Spec == Init /\ [][Next]_vars

(***************************************************************************)
(* SpecReader: a reader on a data file of arbitrary bytes (a truncated or  *)
(* foreign file), sought to arbitrary offsets.                             *)
(***************************************************************************)
\* length of the data files tried
MaxFileLen == 4

\* 0x60: head of an empty text; 0x61: head of a 1-byte text, also 'a';
\* 0x78: head of a text whose length follows in one byte; 0x01: a length;
\* 0xFF: a byte of no valid UTF-8 string
FileBytes == {96, 97, 120, 1, 255}

RECURSIVE ByteSeqs(_)
ByteSeqs(n) ==
  IF n = 0 THEN {<<>>}
  ELSE LET shorter == ByteSeqs(n - 1) IN
       shorter \cup {Append(f, b) : f \in {g \in shorter : Len(g) = n - 1}, b \in FileBytes}

InitReader ==
  /\ \E file \in ByteSeqs(MaxFileLen) : data_writer = get_file_writer(file)
  /\ index_writer = get_file_writer(<<>>)
  /\ buffer_size = DEFAULT_BUFFER_SIZE
  /\ kv_type \in {"text", "bytes"}
  /\ wstate = "closed"
  /\ last_op = "open_reader"
  /\ appended = <<>>
  /\ rd = [NoReader EXCEPT !.open = TRUE]
  /\ sstable_index = NoIndex
  /\ mg = NoMerge
  /\ gt = NoGet
  /\ cb = NoCbor
  /\ dump = NoDump
  /\ info = NoInfo
  /\ session = FirstSession

\* sstable.seek(offset), any offset up to the end of the file
ReaderSeekOffset ==
  /\ rd.open
  /\ rd.log = <<>>
  /\ rd.pos = 0
  /\ \E offset \in 1..Len(data_writer.file) :
       rd' = [rd EXCEPT !.pos = offset]
  /\ last_op' = "seek"
  /\ UNCHANGED <<writer_vars, sstable_index, mg, gt, cb, dump, info>>

NextReader ==
  \/ ReaderSeekOffset
  \/ ReaderNext

SpecReader == InitReader /\ [][NextReader]_vars

(***************************************************************************)
(* Merge: cli/src/merge.rs (Mergeable::merge, HeapTuple) and               *)
(* sstable-cli/src/main.rs (merge_sorted_sstable_index_pairs).  Both are   *)
(* driven by Commands::Merge, which opens a reader per input path and      *)
(* loads and sorts each index.                                             *)
(***************************************************************************)
\* input paths of one merge
MaxInputs == 2
\* records in all the input tables of one merge together
MaxMergeRecords == 3

\* sequences of at most n records
RECURSIVE RecordSeqs(_)
RecordSeqs(n) ==
  IF n = 0 THEN {<<>>}
  ELSE LET shorter == RecordSeqs(n - 1) IN
       shorter \cup {Append(r, <<k, v>>) :
                       r \in {q \in shorter : Len(q) = n - 1}, k \in Keys, v \in Values}

\* lists of at most n tables (each the records written to it) holding at
\* most budget records together
RECURSIVE TableLists(_, _)
TableLists(n, budget) ==
  IF n = 0 THEN {<<>>}
  ELSE {<<>>} \cup
       UNION { { <<r>> \o rest : rest \in TableLists(n - 1, budget - Len(r)) } :
               r \in RecordSeqs(budget) }

\* the two files a writer leaves after appending the records to a fresh
\* table and closing it
RECURSIVE WriteRecords(_, _, _)
WriteRecords(dw, iw, records) ==
  IF records = <<>> THEN SSTableWriter_flush(dw, iw)
  ELSE LET w == SSTableWriter_append(dw, iw, DEFAULT_BUFFER_SIZE,
                                     Head(records)[1], Head(records)[2]) IN
       WriteRecords(w.data_writer, w.index_writer, Tail(records))

WriteTable(records) ==
  WriteRecords(get_file_writer(<<>>), get_file_writer(<<>>), records)

\* compare_tuples: the order of the keys alone (util.rs:81-83)
compare_tuples(a, b) == BytesCmp(a.key, b.key)

\* slice::sort_by(compare_tuples): a stable sort; x goes after the last
\* element that is not greater
RECURSIVE SortInsert(_, _)
SortInsert(sorted, x) ==
  IF sorted = <<>> THEN <<x>>
  ELSE IF compare_tuples(sorted[Len(sorted)], x) <= 0 THEN Append(sorted, x)
  ELSE Append(SortInsert(SubSeq(sorted, 1, Len(sorted) - 1), x), sorted[Len(sorted)])

\* sort_by did not keep entries of one key in their order (sort_unstable_by)
sort_by_compare_tuples_Unstable(indices) ==
  LET reversed == [i \in 1..Len(indices) |-> indices[Len(indices) + 1 - i]]
      RECURSIVE StableSort(_)
      StableSort(s) == IF s = <<>> THEN <<>>
                       ELSE SortInsert(StableSort(SubSeq(s, 1, Len(s) - 1)), s[Len(s)])
  IN  StableSort(reversed)

RECURSIVE sort_by_compare_tuples(_)
sort_by_compare_tuples(indices) ==
  IF indices = <<>> THEN <<>>
  ELSE SortInsert(sort_by_compare_tuples(SubSeq(indices, 1, Len(indices) - 1)),
                  indices[Len(indices)])

\* get_sorted_sstable_index: load the index file, sort it in place
get_sorted_sstable_index(index_file) ==
  sort_by_compare_tuples(SSTableIndex_from_path(index_file).indices)

\* one (reader, index) pair of get_sorted_sstable_index_pairs; the data file
\* on disk keeps its first `keep` bytes
SSTableIndexPair(records, keep) ==
  LET t == WriteTable(records) IN
  [file    |-> SubSeq(t.data_writer.file, 1, keep),
   pos     |-> 0,
   indices |-> get_sorted_sstable_index(t.index_writer.file),
   records |-> records]

DataLen(records) == Len(WriteTable(records).data_writer.file)

\* the places a damaged data file is cut: at the start of its last record,
\* or one byte into it
CutPoints(records) ==
  IF records = <<>> THEN {}
  ELSE LET start == DataLen(SubSeq(records, 1, Len(records) - 1)) IN {start, start + 1}

\* Ord for HeapTuple (merge.rs:32-38): the reverse of the order of the keys
HeapTuple_cmp(self, other) == BytesCmp(other.key, self.key)

\* Ord for Reverse<(String, usize, usize, u64)> (sstable-cli main.rs:64):
\* the reverse of the lexicographic order of the tuple
ReverseTuple_cmp(self, other) ==
  IF BytesCmp(other.key, self.key) # 0 THEN BytesCmp(other.key, self.key)
  ELSE IF other.pair_index # self.pair_index
       THEN (IF other.pair_index < self.pair_index THEN -1 ELSE 1)
  ELSE IF other.index_pos # self.index_pos
       THEN (IF other.index_pos < self.index_pos THEN -1 ELSE 1)
  ELSE IF other.offset # self.offset
       THEN (IF other.offset < self.offset THEN -1 ELSE 1)
  ELSE 0

Heap_cmp(variant, self, other) ==
  IF variant = "cli" THEN HeapTuple_cmp(self, other) ELSE ReverseTuple_cmp(self, other)

\* mutant: the heap gives up a least entry of its order
BinaryHeap_pop_Least(variant, heap) ==
  {e \in heap : \A o \in heap : Heap_cmp(variant, e, o) <= 0}

\* BinaryHeap::pop: a greatest entry of the heap's order; which one of
\* several equal entries is not specified
BinaryHeap_pop(variant, heap) ==
  {e \in heap : \A o \in heap : Heap_cmp(variant, e, o) >= 0}

\* mutant: past the end of the index the last entry is cloned again
clone_index_entry_Clamps(inputs, pair_index, index_pos) ==
  LET indices == inputs[pair_index + 1].indices
      at      == IF index_pos < Len(indices) THEN index_pos + 1 ELSE Len(indices)
  IN  IF indices = <<>> THEN {}
      ELSE {[key |-> indices[at].key, pair_index |-> pair_index,
             index_pos |-> index_pos, offset |-> indices[at].offset]}

\* clone_index_entry / indices.get(index_pos): the heap entry of input
\* pair_index (0-based) at cursor index_pos (0-based), if there is one
clone_index_entry(inputs, pair_index, index_pos) ==
  LET indices == inputs[pair_index + 1].indices IN
  IF index_pos < Len(indices)
  THEN {[key |-> indices[index_pos + 1].key, pair_index |-> pair_index,
         index_pos |-> index_pos, offset |-> indices[index_pos + 1].offset]}
  ELSE {}

\* initialize_heap pushed an entry for every input, offset 0 and the empty
\* key standing in where the index has no entry
initialize_heap_PushesAll(inputs) ==
  UNION {IF inputs[p].indices = <<>>
         THEN {[key |-> <<>>, pair_index |-> p - 1, index_pos |-> 0, offset |-> 0]}
         ELSE clone_index_entry(inputs, p - 1, 0) : p \in 1..Len(inputs)}

\* mutant: only the first input is put on the heap
initialize_heap_FirstInputOnly(inputs) ==
  IF inputs = <<>> THEN {} ELSE clone_index_entry(inputs, 0, 0)

\* initialize_heap: the entry at cursor 0 of every input with one
initialize_heap(inputs) ==
  UNION {clone_index_entry(inputs, p - 1, 0) : p \in 1..Len(inputs)}

InitMerge ==
  /\ data_writer = get_file_writer(<<>>)
  /\ index_writer = get_file_writer(<<>>)
  /\ buffer_size = DEFAULT_BUFFER_SIZE
  /\ kv_type = "text"
  /\ wstate = "closed"
  /\ last_op = "merge"
  /\ appended = <<>>
  /\ rd = NoReader
  /\ sstable_index = NoIndex
  /\ gt = NoGet
  /\ cb = NoCbor
  /\ dump = NoDump
  /\ info = NoInfo
  /\ session = FirstSession
  /\ \E tables \in TableLists(MaxInputs, MaxMergeRecords),
        variant \in {"cli", "sstable_cli"} :
       \E damaged \in 0..Len(tables) :
         \E keep \in (IF damaged = 0 THEN {0} ELSE CutPoints(tables[damaged])) :
           mg = [state   |-> "start",
                 variant |-> variant,
                 damaged |-> damaged,
                 inputs  |-> [p \in 1..Len(tables) |->
                               SSTableIndexPair(tables[p],
                                 IF p = damaged THEN keep ELSE DataLen(tables[p]))],
                 heap    |-> {},
                 emitted |-> <<>>,
                 eof     |-> FALSE,
                 emit_failed |-> FALSE]

\* let mut heap = initialize_heap(sstable_index_pairs)
MergeInitializeHeap ==
  /\ mg.state = "start"
  /\ mg' = [mg EXCEPT !.state = "loop", !.heap = initialize_heap(mg.inputs)]
  /\ UNCHANGED <<writer_vars, last_op, rd, sstable_index, gt, cb, dump, info>>

\* mutant: the result of emit is dropped
emit_try_Ignored(emit_ok) == "loop"

\* emitter.emit((&key, &value))? / emitter.write(&key, &value)?: the loop
\* goes on after Ok, the function returns the error after Err
emit_try(emit_ok) == IF emit_ok THEN "loop" ELSE "err"

\* one turn of `while let Some(..) = heap.pop()`: seek, read, emit, push;
\* eof records that the reader returned None at the popped offset,
\* emit_failed that the sink returned an I/O error (the sink is the
\* environment's: either outcome is possible at every emit)
MergeStep ==
  /\ mg.state = "loop"
  /\ \E e \in BinaryHeap_pop(mg.variant, mg.heap) :
       \E r \in {SSTableReader_next(mg.inputs[e.pair_index + 1].file, e.offset)} :
       \E read \in {[mg EXCEPT !.inputs[e.pair_index + 1].pos = r.pos,
                               !.heap = mg.heap \ {e}]} :
       IF r.item = "None"
       THEN \* cli: ok_or_else(UnexpectedEof)?  sstable-cli: unwrap()
            mg' = [read EXCEPT !.eof = TRUE,
                               !.state = IF mg.variant = "cli" THEN "err" ELSE "panic"]
       ELSE IF r.item = "Err"
       THEN mg' = [read EXCEPT !.state = "err"]
       ELSE \E emit_ok \in BOOLEAN :
              \E sunk \in {[read EXCEPT
                             !.emit_failed = ~emit_ok,
                             !.emitted = IF emit_ok
                                THEN Append(mg.emitted,
                                  [key   |-> IF mg.variant = "cli" THEN r.key ELSE e.key,
                                   value |-> r.value,
                                   pair_index |-> e.pair_index,
                                   index_pos  |-> e.index_pos])
                                ELSE mg.emitted]} :
              IF emit_try(emit_ok) = "err"
              THEN mg' = [sunk EXCEPT !.state = "err"]
              ELSE mg' = [sunk EXCEPT
                            !.heap = read.heap \cup clone_index_entry(mg.inputs, e.pair_index,
                                                                      e.index_pos + 1)]
  /\ UNCHANGED <<writer_vars, last_op, rd, sstable_index, gt, cb, dump, info>>

\* heap.pop() is None: Ok(())
MergeReturnOk ==
  /\ mg.state = "loop"
  /\ mg.heap = {}
  /\ mg' = [mg EXCEPT !.state = "ok"]
  /\ UNCHANGED <<writer_vars, last_op, rd, sstable_index, gt, cb, dump, info>>

NextMerge ==
  \/ MergeInitializeHeap
  \/ MergeStep
  \/ MergeReturnOk

SpecMerge == InitMerge /\ [][NextMerge]_vars

\* merge is one sequential loop: a turn that can be taken is taken
SpecMergeFair == SpecMerge /\ WF_vars(NextMerge)

(***************************************************************************)
(* Get: cli/src/cmd/get.rs (get), cli/src/main.rs (Commands::Get) and      *)
(* sstable-cli/src/main.rs (Commands::Get).                                *)
(***************************************************************************)
\* input paths of one get
MaxPaths == 2
\* records in all the tables of one get together
MaxGetRecords == 3
\* the largest cap Some(n) tried
MaxN == 2

\* Option<usize>: None is <<>>, Some(n) is <<n>>
Caps == {<<>>} \cup {<<n>> : n \in 1..MaxN}

\* slice::binary_search_by(|(k, _)| k.cmp(key)) on positions left..right-1
\* (0-based): Ok(mid) at the first probe that compares Equal, Err(left)
\* when the range is empty.  The probe sequence is the one the repository's
\* test pins down (sstable_writer.rs:538-541: position 4 of 9 for a key at
\* positions 1..5).
RECURSIVE binary_search_by(_, _, _, _)
binary_search_by(indices, key, left, right) ==
  IF ~(left < right) THEN [found |-> FALSE, at |-> left]
  ELSE LET mid == left + ((right - left) \div 2)
           cmp == BytesCmp(indices[mid + 1].key, key)
       IN  IF cmp < 0 THEN binary_search_by(indices, key, mid + 1, right)
           ELSE IF cmp > 0 THEN binary_search_by(indices, key, left, mid)
           ELSE [found |-> TRUE, at |-> mid]

\* get_index_entry_by_key: the entry the binary search lands on, if any
get_index_entry_by_key(indices, key) ==
  LET r == binary_search_by(indices, key, 0, Len(indices)) IN
  IF r.found THEN {indices[r.at + 1]} ELSE {}

KVLine(key, value) == [kind |-> "kv", key |-> key, value |-> value]
VLine(value) == [kind |-> "v", key |-> <<>>, value |-> value]
MissingLine(path) == [kind |-> "missing", key |-> <<>>, value |-> path]

\* write_next_n_with_key from reader position pos, count lines written so
\* far: [ok, out]; n is the cap, <<>> for None
RECURSIVE write_next_n_with_key(_, _, _, _, _)
write_next_n_with_key(file, pos, index_key, n, count) ==
  TheOnly({
    IF r.item = "None" THEN [ok |-> TRUE, out |-> <<>>]
    ELSE IF r.item = "Err" THEN [ok |-> FALSE, out |-> <<>>]
    ELSE IF r.key # index_key THEN [ok |-> TRUE, out |-> <<>>]
    ELSE IF n # <<>> /\ count + 1 >= n[1]
         THEN [ok |-> TRUE, out |-> <<KVLine(r.key, r.value)>>]
    ELSE TheOnly({[ok |-> more.ok, out |-> <<KVLine(r.key, r.value)>> \o more.out] :
                    more \in {write_next_n_with_key(file, r.pos, index_key, n, count + 1)}})
    : r \in {SSTableReader_next(file, pos)}})

\* mutant: the cap is looked at before the record is counted
RECURSIVE get_kv_by_linear_search_CapBeforeCount(_, _, _, _, _)
get_kv_by_linear_search_CapBeforeCount(file, pos, key, n, count) ==
  TheOnly({
    IF r.item = "None" THEN [ok |-> TRUE, out |-> <<>>, pos |-> r.pos]
    ELSE IF r.item = "Err" THEN [ok |-> FALSE, out |-> <<>>, pos |-> r.pos]
    ELSE LET hit    == (r.key = key)
             count1 == IF hit THEN count + 1 ELSE count
             line   == IF hit THEN <<VLine(r.value)>> ELSE <<>>
         IN  IF n # <<>> /\ count >= n[1]
             THEN [ok |-> TRUE, out |-> line, pos |-> r.pos]
             ELSE TheOnly({[ok |-> more.ok, out |-> line \o more.out, pos |-> more.pos] :
                             more \in {get_kv_by_linear_search_CapBeforeCount(file, r.pos, key, n, count1)}})
    : r \in {SSTableReader_next(file, pos)}})

\* get_kv_by_linear_search from reader position pos, count values written
\* so far: [ok, out, pos], pos the position the reader is left at
RECURSIVE get_kv_by_linear_search(_, _, _, _, _)
get_kv_by_linear_search(file, pos, key, n, count) ==
  TheOnly({
    IF r.item = "None" THEN [ok |-> TRUE, out |-> <<>>, pos |-> r.pos]
    ELSE IF r.item = "Err" THEN [ok |-> FALSE, out |-> <<>>, pos |-> r.pos]
    ELSE LET hit    == (r.key = key)
             count1 == IF hit THEN count + 1 ELSE count
             line   == IF hit THEN <<VLine(r.value)>> ELSE <<>>
         IN  IF n # <<>> /\ count1 >= n[1]
             THEN [ok |-> TRUE, out |-> line, pos |-> r.pos]
             ELSE TheOnly({[ok |-> more.ok, out |-> line \o more.out, pos |-> more.pos] :
                             more \in {get_kv_by_linear_search(file, r.pos, key, n, count1)}})
    : r \in {SSTableReader_next(file, pos)}})

\* one path of a get: a data file that may be missing, with or without its
\* sidecar index file
GetPathOf(records, kind) ==
  LET t == WriteTable(records) IN
  [kind       |-> kind,
   records    |-> records,
   file       |-> t.data_writer.file,
   index_file |-> t.index_writer.file]

PathKinds == {"missing", "indexed", "no_index"}

RECURSIVE KindLists(_)
KindLists(n) ==
  IF n = 0 THEN {<<>>}
  ELSE {Append(l, k) : l \in KindLists(n - 1), k \in PathKinds}

InitGet ==
  /\ data_writer = get_file_writer(<<>>)
  /\ index_writer = get_file_writer(<<>>)
  /\ buffer_size = DEFAULT_BUFFER_SIZE
  /\ kv_type = "text"
  /\ wstate = "closed"
  /\ last_op = "get"
  /\ appended = <<>>
  /\ rd = NoReader
  /\ sstable_index = NoIndex
  /\ mg = NoMerge
  /\ cb = NoCbor
  /\ dump = NoDump
  /\ info = NoInfo
  /\ session = FirstSession
  /\ \E tables \in TableLists(MaxPaths, MaxGetRecords),
        variant \in {"get_rs", "cli_main", "sstable_cli_main"},
        key \in Keys, n \in Caps :
       \E kinds \in KindLists(Len(tables)) :
         /\ \A p \in 1..Len(tables) : kinds[p] = "missing" => tables[p] = <<>>
         /\ gt = [state   |-> "loop",
                  variant |-> variant,
                  paths   |-> [p \in 1..Len(tables) |-> GetPathOf(tables[p], kinds[p])],
                  key     |-> key,
                  n       |-> n,
                  i       |-> 1,
                  scanned |-> 0,
                  out     |-> <<>>]

GetPath == gt.paths[gt.i]

\* the index branch is taken: the index file loads (the first two variants)
GetUsesIndex ==
  /\ gt.variant \in {"get_rs", "cli_main"}
  /\ GetPath.kind = "indexed"
  /\ SSTableIndex_from_path(GetPath.index_file).ok

\* the command ended after the message for a missing file
after_missing_file_Returns(i) == [i |-> i, state |-> "returned"]

\* the `if !input_path.is_file()` branch has no return and no break: the
\* for loop takes the next path
after_missing_file(i) == [i |-> i + 1, state |-> "loop"]

\* !input_path.is_file(): the message, then the next path
GetMissingFile ==
  /\ gt.state = "loop" /\ gt.i <= Len(gt.paths)
  /\ GetPath.kind = "missing"
  /\ LET after == after_missing_file(gt.i) IN
       gt' = [gt EXCEPT !.out = Append(gt.out, MissingLine(gt.i)),
                        !.i = after.i, !.state = after.state]
  /\ UNCHANGED <<writer_vars, last_op, rd, sstable_index, mg, cb, dump, info>>

\* the index loads: binary search, seek, write while the key is equal
GetByIndex ==
  /\ gt.state = "loop" /\ gt.i <= Len(gt.paths)
  /\ GetPath.kind # "missing"
  /\ GetUsesIndex
  /\ LET indices == SSTableIndex_from_path(GetPath.index_file).indices
         entry   == get_index_entry_by_key(indices, gt.key)
     IN  IF entry = {}
         THEN \* return Ok(()): the function (get.rs:115) or main (main.rs:206) ends
              gt' = [gt EXCEPT !.state = "returned"]
         ELSE \E e \in entry :
                LET w == write_next_n_with_key(GetPath.file, e.offset, e.key,
                           IF gt.variant = "get_rs" THEN gt.n ELSE <<>>, 0) IN
                gt' = [gt EXCEPT !.out = gt.out \o w.out,
                                 !.i = gt.i + 1,
                                 !.state = IF w.ok THEN "loop" ELSE "err"]
  /\ UNCHANGED <<writer_vars, last_op, rd, sstable_index, mg, cb, dump, info>>

\* no index (or a variant without the index branch): linear scan
GetByLinearSearch ==
  /\ gt.state = "loop" /\ gt.i <= Len(gt.paths)
  /\ GetPath.kind # "missing"
  /\ ~GetUsesIndex
  /\ LET w == get_kv_by_linear_search(GetPath.file, 0, gt.key, gt.n, 0) IN
       gt' = [gt EXCEPT !.out = gt.out \o w.out,
                        !.i = gt.i + 1,
                        !.scanned = w.pos,
                        !.state = IF w.ok THEN "loop" ELSE "err"]
  /\ UNCHANGED <<writer_vars, last_op, rd, sstable_index, mg, cb, dump, info>>

\* the loop over the paths is over: Ok(())
GetReturnOk ==
  /\ gt.state = "loop" /\ gt.i > Len(gt.paths)
  /\ gt' = [gt EXCEPT !.state = "returned"]
  /\ UNCHANGED <<writer_vars, last_op, rd, sstable_index, mg, cb, dump, info>>

NextGet ==
  \/ GetMissingFile
  \/ GetByIndex
  \/ GetByLinearSearch
  \/ GetReturnOk

SpecGet == InitGet /\ [][NextGet]_vars

(***************************************************************************)
(* dump: Commands::Dump of cli/src/main.rs:96-115.                         *)
(***************************************************************************)
MaxDumpPaths == 2
MaxDumpRecords == 3

\* the lines dump writes
DumpRecordLine(pos, key, value) ==
  [kind |-> "record", pos |-> pos, key |-> key, value |-> value]
DumpMissingLine(path) ==
  [kind |-> "missing", pos |-> path, key |-> <<>>, value |-> <<>>]

\* the `loop` of dump over one reader, from position pos: [state, out],
\* state what the match on next() leaves the command in
RECURSIVE dump_loop(_, _)
dump_loop(file, pos) ==
  TheOnly({
    IF r.item = "None" THEN [state |-> "returned", out |-> <<>>]
    ELSE IF r.item = "Err" THEN [state |-> "err", out |-> <<>>]
    ELSE TheOnly({[state |-> more.state,
                   out   |-> <<DumpRecordLine(pos, r.key, r.value)>> \o more.out] :
                    more \in {dump_loop(file, r.pos)}})
    : r \in {SSTableReader_next(file, pos)}})

\* one path of a dump: a data file that may be missing
DumpPathOf(records, kind) ==
  [kind    |-> kind,
   records |-> records,
   file    |-> WriteTable(records).data_writer.file]

RECURSIVE DumpKindLists(_)
DumpKindLists(n) ==
  IF n = 0 THEN {<<>>}
  ELSE {<<k>> \o rest : k \in {"missing", "exists"}, rest \in DumpKindLists(n - 1)}

InitDump ==
  /\ data_writer = get_file_writer(<<>>)
  /\ index_writer = get_file_writer(<<>>)
  /\ buffer_size = DEFAULT_BUFFER_SIZE
  /\ kv_type = "text"
  /\ wstate = "closed"
  /\ last_op = "dump"
  /\ appended = <<>>
  /\ rd = NoReader
  /\ sstable_index = NoIndex
  /\ mg = NoMerge
  /\ gt = NoGet
  /\ cb = NoCbor
  /\ info = NoInfo
  /\ session = FirstSession
  /\ \E tables \in TableLists(MaxDumpPaths, MaxDumpRecords) :
       \E kinds \in DumpKindLists(Len(tables)) :
         /\ \A p \in 1..Len(tables) : kinds[p] = "missing" => tables[p] = <<>>
         /\ dump = [state |-> "loop",
                    paths |-> [p \in 1..Len(tables) |-> DumpPathOf(tables[p], kinds[p])],
                    i     |-> 1,
                    out   |-> <<>>]

\* !input_path.is_file(): the message, then the next path
DumpMissingFile ==
  /\ dump.state = "loop" /\ dump.i <= Len(dump.paths)
  /\ dump.paths[dump.i].kind = "missing"
  /\ dump' = [dump EXCEPT !.out = Append(dump.out, DumpMissingLine(dump.i)),
                          !.i = dump.i + 1]
  /\ UNCHANGED <<writer_vars, last_op, rd, sstable_index, mg, gt, cb, info>>

\* the data file exists: the reader is opened and the `loop` runs until the
\* match on next() returns from main
DumpFile ==
  /\ dump.state = "loop" /\ dump.i <= Len(dump.paths)
  /\ dump.paths[dump.i].kind # "missing"
  /\ LET w == dump_loop(dump.paths[dump.i].file, 0) IN
       dump' = [dump EXCEPT !.out = dump.out \o w.out,
                            !.state = w.state]
  /\ UNCHANGED <<writer_vars, last_op, rd, sstable_index, mg, gt, cb, info>>

\* the `for` over the paths is over: main goes on to its Ok(())
DumpReturnOk ==
  /\ dump.state = "loop" /\ dump.i > Len(dump.paths)
  /\ dump' = [dump EXCEPT !.state = "returned"]
  /\ UNCHANGED <<writer_vars, last_op, rd, sstable_index, mg, gt, cb, info>>

NextDump ==
  \/ DumpMissingFile
  \/ DumpFile
  \/ DumpReturnOk

SpecDump == InitDump /\ [][NextDump]_vars

(***************************************************************************)
(* SpecIndex: the index loader on the index file a writer has left, cut    *)
(* short at any byte (a crash before the buffer reached the disk, a        *)
(* partial copy).                                                          *)
(***************************************************************************)
\* records of the table whose index is loaded
MaxIndexRecords == 3

\* the two files a writer of kind T leaves after appending the records to a
\* fresh table and closing it
RECURSIVE WriteRecordsAs(_, _, _, _)
WriteRecordsAs(T, dw, iw, records) ==
  IF records = <<>> THEN SSTableWriter_close(dw, iw)
  ELSE TheOnly({WriteRecordsAs(T, w.data_writer, w.index_writer, Tail(records)) :
         w \in {SSTableWriterAppend_append(T, dw, iw, DEFAULT_BUFFER_SIZE,
                                           Head(records)[1], Head(records)[2])}})

InitIndex ==
  /\ kv_type \in {"text", "bytes"}
  /\ \E records \in RecordSeqs(MaxIndexRecords) :
       LET w == WriteRecordsAs(kv_type, get_file_writer(<<>>), get_file_writer(<<>>), records) IN
       /\ appended = records
       /\ data_writer = w.data_writer
       /\ \E cut \in 0..Len(w.index_writer.file) :
            index_writer = [w.index_writer EXCEPT !.file = SubSeq(w.index_writer.file, 1, cut)]
  /\ buffer_size = DEFAULT_BUFFER_SIZE
  /\ wstate = "closed"
  /\ last_op = "close"
  /\ rd = NoReader
  /\ sstable_index = NoIndex
  /\ mg = NoMerge
  /\ gt = NoGet
  /\ cb = NoCbor
  /\ dump = NoDump
  /\ info = NoInfo
  /\ session = FirstSession

NextIndex == IndexFromPath

SpecIndex == InitIndex /\ [][NextIndex]_vars

(***************************************************************************)
(* Canonical search and sort: sstables/src/cbor.rs (cbor_cmp, CborSearch,  *)
(* CborSort).  A Cursor<Vec<u8>> is [buf, pos]; an index is a sequence of  *)
(* [key, offset]; T is "text", "bytes" or "uint" (keys of kind "uint" are  *)
(* u64 values, 8 big-endian bytes).                                        *)
(***************************************************************************)

\* Cursor::new(Vec::new())
Cursor_new == [buf |-> <<>>, pos |-> 0]

\* Cursor::set_position
Cursor_set_position(cur, p) == [cur EXCEPT !.pos = p]

\* Write for Cursor<Vec<u8>>: the bytes overwrite the vector from the
\* position on, the vector grows when they reach past its end
Cursor_write_all(cur, bytes) ==
  LET end == cur.pos + Len(bytes) IN
  [buf |-> SubSeq(cur.buf, 1, cur.pos) \o bytes \o SubSeq(cur.buf, end + 1, Len(cur.buf)),
   pos |-> end]

RECURSIVE Cursor_write_chunks(_, _)
Cursor_write_chunks(cur, chunks) ==
  IF chunks = <<>> THEN cur
  ELSE Cursor_write_chunks(Cursor_write_all(cur, Head(chunks)), Tail(chunks))

\* the write_cbor_* call of the sort and search function of kind T
write_cbor_key(T, key) ==
  CASE T = "text"  -> write_cbor_text(key)
    [] T = "bytes" -> write_cbor_bytes(key)
    [] T = "uint"  -> write_cbor_unsigned_integer(key)

\* usize::cmp
usize_cmp(a, b) == IF a < b THEN -1 ELSE IF a > b THEN 1 ELSE 0

\* cbor_cmp compared every byte of both vectors
cbor_cmp_WholeBuffers(a, b) ==
  IF Len(a.buf) # Len(b.buf) THEN usize_cmp(Len(a.buf), Len(b.buf))
  ELSE BytesCmp(a.buf, b.buf)

\* cbor_cmp: the written lengths first, then the written bytes
cbor_cmp(a, b) ==
  LET len_a == a.pos
      len_b == b.pos
  IN  IF len_a # len_b THEN usize_cmp(len_a, len_b)
      ELSE BytesCmp(SubSeq(a.buf, 1, len_a), SubSeq(b.buf, 1, len_a))

\* step_back_for_duplicates did not step back
step_back_for_duplicates_Stay(indices, i) == i

\* step_back_for_duplicates (i is 0-based)
RECURSIVE step_back_for_duplicates(_, _)
step_back_for_duplicates(indices, i) ==
  IF i > 0 /\ indices[i].key = indices[i + 1].key
  THEN step_back_for_duplicates(indices, i - 1)
  ELSE i

\* the closure of binary_search_*_first: (Ordering, probe_cur afterwards)
search_probe(T, probe_cur, seek_cur, probe) ==
  LET cur == Cursor_write_chunks(Cursor_set_position(probe_cur, 0), write_cbor_key(T, probe))
  IN  [r |-> cbor_cmp(cur, seek_cur), probe_cur |-> cur]

\* slice::binary_search_by with that closure, on positions left..right-1
RECURSIVE binary_search_by_probe(_, _, _, _, _, _)
binary_search_by_probe(T, indices, probe_cur, seek_cur, left, right) ==
  IF ~(left < right) THEN [found |-> FALSE, at |-> left]
  ELSE TheOnly({
         IF c.r < 0 THEN binary_search_by_probe(T, indices, c.probe_cur, seek_cur, mid + 1, right)
         ELSE IF c.r > 0 THEN binary_search_by_probe(T, indices, c.probe_cur, seek_cur, left, mid)
         ELSE [found |-> TRUE, at |-> mid]
         : <<mid, c>> \in {<<m, search_probe(T, probe_cur, seek_cur, indices[m + 1].key)>> :
                             m \in {left + ((right - left) \div 2)}}})

\* the body the three binary_search_*_first functions share:
\* Ok(i) is [found |-> TRUE, at |-> i], Err(p) is [found |-> FALSE, at |-> p]
binary_search_first(T, indices, seek) ==
  LET seek_cur == Cursor_write_chunks(Cursor_new, write_cbor_key(T, seek))
      r == binary_search_by_probe(T, indices, Cursor_new, seek_cur, 0, Len(indices))
  IN  IF r.found THEN [found |-> TRUE, at |-> step_back_for_duplicates(indices, r.at)]
      ELSE r

binary_search_bytes_first(indices, seek) == binary_search_first("bytes", indices, seek)
binary_search_text_first(indices, seek) == binary_search_first("text", indices, seek)
binary_search_unsigned_integer_first(indices, seek) == binary_search_first("uint", indices, seek)

\* CborSearch::cbor_search
cbor_search(T, indices, key) ==
  CASE T = "bytes" -> binary_search_bytes_first(indices, key)
    [] T = "text"  -> binary_search_text_first(indices, key)
    [] T = "uint"  -> binary_search_unsigned_integer_first(indices, key)

\* u64::cmp on offsets
offset_cmp(a, b) == IF a < b THEN -1 ELSE IF a > b THEN 1 ELSE 0

\* what the closure of sort_* does before it looks at the offsets: both
\* cursors are rewound and overwritten with the encoded keys
canonical_compare(T, a_cur, b_cur, a_key, b_key) ==
  LET a1 == Cursor_write_chunks(Cursor_set_position(a_cur, 0), write_cbor_key(T, a_key))
      b1 == Cursor_write_chunks(Cursor_set_position(b_cur, 0), write_cbor_key(T, b_key))
  IN  [r |-> cbor_cmp(a1, b1), a_cur |-> a1, b_cur |-> b1]

\* the closure of sort_* without the offset tie-break
sort_compare_KeyOnly(T, a_cur, b_cur, a, b) ==
  canonical_compare(T, a_cur, b_cur, a.key, b.key)

\* the closure of sort_text, sort_bytes and sort_unsigned_integer:
\* (Ordering, a_cur afterwards, b_cur afterwards)
sort_compare(T, a_cur, b_cur, a, b) ==
  LET c == canonical_compare(T, a_cur, b_cur, a.key, b.key) IN
  [c EXCEPT !.r = IF c.r = 0 THEN offset_cmp(a.offset, b.offset) ELSE c.r]

\* slice::sort_by is a stable sort; st is [list, a_cur, b_cur], the sorted
\* prefix and the two cursors the closure keeps between comparisons.  x
\* goes behind the last entry that does not compare Greater than it.
RECURSIVE sort_by_insert(_, _, _)
sort_by_insert(T, st, x) ==
  IF st.list = <<>> THEN [st EXCEPT !.list = <<x>>]
  ELSE TheOnly({
         IF c.r <= 0
         THEN [list |-> Append(st.list, x), a_cur |-> c.a_cur, b_cur |-> c.b_cur]
         ELSE TheOnly({[rec EXCEPT !.list = Append(rec.list, last)] :
                rec \in {sort_by_insert(T, [list  |-> SubSeq(st.list, 1, Len(st.list) - 1),
                                            a_cur |-> c.a_cur, b_cur |-> c.b_cur], x)}})
         : <<last, c>> \in {<<l, sort_compare(T, st.a_cur, st.b_cur, l, x)>> :
                              l \in {st.list[Len(st.list)]}}})

RECURSIVE sort_by(_, _, _)
sort_by(T, st, indices) ==
  IF indices = <<>> THEN st
  ELSE TheOnly({sort_by(T, nxt, Tail(indices)) : nxt \in {sort_by_insert(T, st, Head(indices))}})

\* the body the three sort_* functions share
sort_indices(T, indices) ==
  sort_by(T, [list |-> <<>>, a_cur |-> Cursor_new, b_cur |-> Cursor_new], indices).list

sort_text(indices) == sort_indices("text", indices)
sort_bytes(indices) == sort_indices("bytes", indices)
sort_unsigned_integer(indices) == sort_indices("uint", indices)

\* CborSort::cbor_sort
cbor_sort(T, indices) ==
  CASE T = "text"  -> sort_text(indices)
    [] T = "bytes" -> sort_bytes(indices)
    [] T = "uint"  -> sort_unsigned_integer(indices)

\* is_cbor_sorted (imported by sstable-cli/src/main.rs:16 and
\* cli/src/info.rs:7; its body is not part of the sources at hand): no
\* entry's encoded key is canonically greater than the next entry's
is_cbor_sorted(T, indices) ==
  \A i \in 1..(Len(indices) - 1) :
    cbor_cmp(Cursor_write_chunks(Cursor_new, write_cbor_key(T, indices[i].key)),
             Cursor_write_chunks(Cursor_new, write_cbor_key(T, indices[i + 1].key))) <= 0

\* read_cbor_text, read_cbor_bytes or read_cbor_u64, by the kind T
read_cbor_key(T, file, pos) ==
  CASE T = "text"  -> read_cbor_text(file, pos)
    [] T = "bytes" -> read_cbor_bytes(file, pos)
    [] T = "uint"  -> read_cbor_u64(file, pos)

(***************************************************************************)
(* SpecCbor: the codec's functions applied to drawn inputs.  Init draws a  *)
(* kind, an index of that kind and a key; the actions call cbor_sort and   *)
(* cbor_search on the index, and (on the harness with the empty index)     *)
(* write_cbor_head, a write followed by a read, and the comparison of the  *)
(* sort closure on cursors that are reused between calls.                  *)
(***************************************************************************)
\* longest index drawn
MaxIndices == 3

CborKinds == {"text", "bytes", "uint"}

\* 2^32
U32_MAX_PLUS_1 == <<0, 0, 0, 1, 0, 0, 0, 0>>
\* u64::MAX
U64_MAX == <<255, 255, 255, 255, 255, 255, 255, 255>>

\* keys of the drawn indexes: "5", "00", "a" and a 24-byte text; byte
\* strings of length 0..3; integers of four size classes
CborKeys(T) ==
  CASE T = "text"  -> {<<53>>, <<48, 48>>, <<97>>, LongValue}
    [] T = "bytes" -> {<<>>, <<3>>, <<1, 2>>, <<1, 2, 4>>}
    [] T = "uint"  -> {as_u64(23), as_u64(24), as_u64(256), U32_MAX_PLUS_1}

\* values written and read back: the keys, and for integers the values on
\* both sides of every size-class boundary
CborValues(T) ==
  IF T = "uint"
  THEN {as_u64(0), as_u64(23), as_u64(24), as_u64(U8_MAX), as_u64(U8_MAX + 1),
        as_u64(U16_MAX), as_u64(U16_MAX + 1), U32_MAX, U32_MAX_PLUS_1, U64_MAX}
  ELSE CborKeys(T) \cup {<<>>}

CborOffsets == {0, 1}

CborEntries(T) == {[key |-> k, offset |-> o] : k \in CborKeys(T), o \in CborOffsets}

RECURSIVE CborIndexes(_, _)
CborIndexes(T, n) ==
  IF n = 0 THEN {<<>>}
  ELSE LET shorter == CborIndexes(T, n - 1) IN
       shorter \cup {Append(s, e) : s \in {t \in shorter : Len(t) = n - 1}, e \in CborEntries(T)}

InitCbor ==
  /\ data_writer = get_file_writer(<<>>)
  /\ index_writer = get_file_writer(<<>>)
  /\ buffer_size = DEFAULT_BUFFER_SIZE
  /\ kv_type = "text"
  /\ wstate = "closed"
  /\ last_op = "none"
  /\ appended = <<>>
  /\ rd = NoReader
  /\ sstable_index = NoIndex
  /\ mg = NoMerge
  /\ gt = NoGet
  /\ dump = NoDump
  /\ info = NoInfo
  /\ session = FirstSession
  /\ \E T \in CborKinds :
       \E indices \in CborIndexes(T, MaxIndices), seek \in CborKeys(T) :
         cb = [op |-> "input", kind |-> T, input |-> indices, before |-> indices,
               indices |-> indices, seek |-> seek, out |-> <<>>]

cb_rest == <<data_writer, index_writer, buffer_size, kv_type, wstate, session, last_op,
             appended, rd, sstable_index, mg, gt, dump, info>>

\* indices.cbor_sort(), up to twice
CborSort ==
  /\ cb.op \in {"input", "sorted"}
  /\ cb' = [cb EXCEPT !.op = IF cb.op = "input" THEN "sorted" ELSE "sorted_twice",
                      !.before = cb.indices,
                      !.indices = cbor_sort(cb.kind, cb.indices)]
  /\ UNCHANGED cb_rest

\* indices.cbor_search(seek), on the index as drawn or as sorted
CborSearch ==
  /\ cb.op \in {"input", "sorted"}
  /\ cb' = [cb EXCEPT !.op = "searched",
                      !.out = cbor_search(cb.kind, cb.indices, cb.seek)]
  /\ UNCHANGED cb_rest

\* write_cbor_head(major_type, value) into an empty Vec<u8>
CborWriteHead ==
  /\ cb.op = "input" /\ cb.input = <<>>
  /\ \E major_type \in {MajorType_UnsignedInteger, MajorType_Bytes, MajorType_Text},
        value \in CborValues("uint") :
       cb' = [cb EXCEPT !.op = "head",
                        !.out = [major_type |-> major_type, value |-> value,
                                 bytes |-> Flatten(write_cbor_head(major_type, value))]]
  /\ UNCHANGED cb_rest

\* write_cbor_*(x) behind what the stream holds already, other bytes
\* behind it, then read_cbor_* from where x starts
CborWriteRead ==
  /\ cb.op = "input" /\ cb.input = <<>>
  /\ \E x \in CborValues(cb.kind), pre \in {<<>>, <<1>>}, post \in {<<>>, <<97>>} :
       LET written == Flatten(write_cbor_key(cb.kind, x)) IN
       cb' = [cb EXCEPT !.op = "read",
                        !.out = [x |-> x, start |-> Len(pre), written |-> written,
                                 read |-> read_cbor_key(cb.kind, pre \o written \o post, Len(pre))]]
  /\ UNCHANGED cb_rest

\* the comparison of the sort closure on the keys seek, b and c, the two
\* cursors being reused from one call to the next as sort_by reuses them
CborCompare ==
  /\ cb.op = "input" /\ cb.input = <<>>
  /\ \E b \in CborKeys(cb.kind), c \in CborKeys(cb.kind) :
       LET a  == cb.seek
           ab == canonical_compare(cb.kind, Cursor_new, Cursor_new, a, b)
           bc == canonical_compare(cb.kind, ab.a_cur, ab.b_cur, b, c)
           ac == canonical_compare(cb.kind, bc.a_cur, bc.b_cur, a, c)
           ba == canonical_compare(cb.kind, ac.a_cur, ac.b_cur, b, a)
       IN  cb' = [cb EXCEPT !.op = "compared",
                            !.out = [a |-> a, b |-> b, c |-> c, ab |-> ab.r,
                                     bc |-> bc.r, ac |-> ac.r, ba |-> ba.r]]
  /\ UNCHANGED cb_rest

\* bytes behind the initial byte of an item not written by this codec
ForeignRestLen == 32

\* read_cbor_* on an item with an arbitrary initial byte, followed by
\* ForeignRestLen bytes 'a'
CborReadForeign ==
  /\ cb.op = "input" /\ cb.input = <<>>
  /\ \E initial \in 0..255 :
       LET rest == [i \in 1..ForeignRestLen |-> 97] IN
       cb' = [cb EXCEPT !.op = "foreign",
                        !.out = [initial |-> initial, rest |-> rest,
                                 read |-> read_cbor_key(cb.kind, <<initial>> \o rest, 0)]]
  /\ UNCHANGED cb_rest

NextCbor ==
  \/ CborReadForeign
  \/ CborSort
  \/ CborSearch
  \/ CborWriteHead
  \/ CborWriteRead
  \/ CborCompare

SpecCbor == InitCbor /\ [][NextCbor]_vars

(***************************************************************************)
(* Claims about the codec's functions (checked under SpecCbor).            *)
(***************************************************************************)

\* the canonical order of two keys of kind T, from their encodings: the
\* shorter encoding first, encodings of one length in lexicographic order
CanonicalKeyCmp(T, a, b) ==
  LET ea == Flatten(write_cbor_key(T, a))
      eb == Flatten(write_cbor_key(T, b))
  IN  IF Len(ea) < Len(eb) THEN -1
      ELSE IF Len(ea) > Len(eb) THEN 1
      ELSE BytesCmp(ea, eb)

CanonicallySorted(T, indices) ==
  \A i, j \in 1..Len(indices) :
    i < j => CanonicalKeyCmp(T, indices[i].key, indices[j].key) <= 0

\* C12: on an index sorted in canonical order, cbor_search (that is,
\* binary_search_bytes_first, binary_search_text_first or
\* binary_search_unsigned_integer_first) returns Ok(i) with i the smallest
\* position whose key equals the target when the target is present, and
\* Err(p) with p the number of entries canonically smaller than the target
\* (the position where inserting it keeps the index sorted) when it is
\* absent.
C12_SearchFindsFirstOrInsertionPoint ==
  (cb.op = "searched" /\ CanonicallySorted(cb.kind, cb.indices)) =>
    LET hits == {i \in 1..Len(cb.indices) : cb.indices[i].key = cb.seek}
        smaller == {i \in 1..Len(cb.indices) :
                      CanonicalKeyCmp(cb.kind, cb.indices[i].key, cb.seek) < 0}
    IN  IF hits # {}
        THEN /\ cb.out.found
             /\ cb.out.at + 1 \in hits
             /\ \A i \in hits : cb.out.at + 1 <= i
        ELSE /\ ~cb.out.found
             /\ cb.out.at = Cardinality(smaller)

\* a sorted index whose first two entries both hold the target, behind them
\* a greater key: the search answers Ok(0)
C12_Witness ==
  /\ cb.op = "searched"
  /\ CanonicallySorted(cb.kind, cb.indices)
  /\ Len(cb.indices) = 3
  /\ cb.indices[1].key = cb.seek
  /\ cb.indices[2].key = cb.seek
  /\ cb.indices[3].key # cb.seek
  /\ cb.out = [found |-> TRUE, at |-> 0]

\* how often entry e occurs in the index
CountEntry(indices, e) == Cardinality({i \in 1..Len(indices) : indices[i] = e})

\* C13: cbor_sort rearranges an index into a permutation of itself ordered
\* by the canonical order of the encoded keys, entries of one key by
\* ascending offset; is_cbor_sorted holds on the result, and sorting the
\* result again changes nothing.
C13_SortIsCanonicalStablePermutation ==
  (cb.op \in {"sorted", "sorted_twice"}) =>
    /\ Len(cb.indices) = Len(cb.before)
    /\ \A e \in CborEntries(cb.kind) :
         CountEntry(cb.indices, e) = CountEntry(cb.before, e)
    /\ \A i, j \in 1..Len(cb.indices) :
         i < j =>
           LET c == CanonicalKeyCmp(cb.kind, cb.indices[i].key, cb.indices[j].key) IN
           \/ c < 0
           \/ c = 0 /\ cb.indices[i].offset <= cb.indices[j].offset
    /\ is_cbor_sorted(cb.kind, cb.indices)
    /\ (cb.op = "sorted_twice" => cb.indices = cb.before)

\* an index of three entries that starts with one key at offsets 1 and 0
\* and is not in canonical order, sorted twice
C13_Witness ==
  /\ cb.op = "sorted_twice"
  /\ Len(cb.input) = 3
  /\ cb.input[1].key = cb.input[2].key
  /\ cb.input[1].offset > cb.input[2].offset
  /\ CanonicalKeyCmp(cb.kind, cb.input[2].key, cb.input[3].key) > 0
  /\ cb.indices = <<cb.input[3], cb.input[2], cb.input[1]>>

\* C14: for every u64, byte string and text x, reading with read_cbor_u64,
\* read_cbor_bytes or read_cbor_text what write_cbor_unsigned_integer,
\* write_cbor_bytes or write_cbor_text wrote for x returns x and leaves the
\* stream exactly behind the bytes written, whatever precedes and follows
\* them.
C14_WriteThenReadReturnsValue ==
  (cb.op = "read") =>
    /\ cb.out.read.ok
    /\ cb.out.read.val = cb.out.x
    /\ cb.out.read.pos = cb.out.start + Len(cb.out.written)

\* u64::MAX written behind one byte and in front of another, read back
C14_Witness ==
  /\ cb.op = "read"
  /\ cb.kind = "uint"
  /\ cb.out.x = U64_MAX
  /\ cb.out.start = 1
  /\ Len(cb.out.written) = 9
  /\ cb.out.read = [ok |-> TRUE, kind |-> "", val |-> U64_MAX, pos |-> 10]

\* the number of leading zero bytes of a u64
LeadingZeroBytes(value) ==
  Cardinality({i \in 1..8 : \A j \in 1..i : value[j] = 0})

\* C15: write_cbor_head uses the smallest size class that holds the value:
\* the low five bits of the initial byte are the value itself for 0..=23,
\* 24 with 1 following byte for 24..=255, 25 with 2 bytes for 256..=65535,
\* 26 with 4 bytes for 65536..=2^32-1 and 27 with 8 bytes above; the
\* following bytes are the value in big-endian order and the top three bits
\* of the initial byte are the major type.
C15_HeadUsesSmallestSizeClass ==
  (cb.op = "head") =>
    LET value == cb.out.value
        bytes == cb.out.bytes
        lz    == LeadingZeroBytes(value)
        class == IF lz = 8 \/ (lz = 7 /\ value[8] <= 23) THEN value[8]
                 ELSE IF lz = 7 THEN 24
                 ELSE IF lz = 6 THEN 25
                 ELSE IF lz >= 4 THEN 26
                 ELSE 27
        n     == IF class < 24 THEN 0
                 ELSE IF class = 24 THEN 1
                 ELSE IF class = 25 THEN 2
                 ELSE IF class = 26 THEN 4
                 ELSE 8
    IN  /\ Len(bytes) = 1 + n
        /\ bytes[1] % 32 = class
        /\ (bytes[1] \div 32) * 32 = cb.out.major_type
        /\ SubSeq(bytes, 2, Len(bytes)) = SubSeq(value, 9 - n, 8)

\* 2^32 written as a text head: 0x7b and eight bytes
C15_Witness ==
  /\ cb.op = "head"
  /\ cb.out.major_type = MajorType_Text
  /\ cb.out.value = U32_MAX_PLUS_1
  /\ cb.out.bytes = <<123, 0, 0, 0, 1, 0, 0, 0, 0>>

\* C16: the canonical comparison orders two keys by the length of their
\* encodings first and by the lexicographic order of the encoded bytes
\* second; on the keys of one kind it is a total order (antisymmetric,
\* transitive, Equal only for equal keys); it differs from the natural
\* order of the keys: the text "00" sorts after "5".
C16_CanonicalOrderIsLengthThenBytes ==
  (cb.op = "compared") =>
    LET o == cb.out IN
    /\ o.ab = CanonicalKeyCmp(cb.kind, o.a, o.b)
    /\ o.bc = CanonicalKeyCmp(cb.kind, o.b, o.c)
    /\ o.ac = CanonicalKeyCmp(cb.kind, o.a, o.c)
    /\ o.ba = 0 - o.ab
    /\ (o.ab = 0) <=> (o.a = o.b)
    /\ (o.ab <= 0 /\ o.bc <= 0) => o.ac <= 0
    /\ (cb.kind = "text" /\ o.a = <<48, 48>> /\ o.b = <<53>>) =>
         (o.ab = 1 /\ BytesCmp(o.a, o.b) = -1)

\* "00" compared with "5", then "5" with the 24-byte text on the same
\* cursors
C16_Witness ==
  /\ cb.op = "compared"
  /\ cb.kind = "text"
  /\ cb.out.a = <<48, 48>>
  /\ cb.out.b = <<53>>
  /\ cb.out.c = LongValue
  /\ cb.out.ab = 1
  /\ cb.out.bc = -1

MaxInfoPaths == 2
MaxInfoRecords == 3

\* a line of the report: its label and the number, key or text behind it
InfoLine(kind, num, key, text) ==
  [kind |-> kind, num |-> num, key |-> key, text |-> text]

\* is_sorted_by(slice, compare_tuples): every window of two is in the order
\* of compare_tuples
is_sorted_by(slice) ==
  \A i \in 1..(Len(slice) - 1) : compare_tuples(slice[i], slice[i + 1]) <= 0

\* Ord for (String, u64): the key, then the offset
tuple_cmp(a, b) ==
  IF BytesCmp(a.key, b.key) # 0 THEN BytesCmp(a.key, b.key)
  ELSE usize_cmp(a.offset, b.offset)

\* the loop of get_min_max over the items behind the first
RECURSIVE get_min_max_loop(_, _, _, _)
get_min_max_loop(slice, i, min, max) ==
  IF i > Len(slice) THEN [some |-> TRUE, min |-> min, max |-> max]
  ELSE TheOnly({get_min_max_loop(slice, i + 1, m[1], m[2]) :
         m \in {<<IF tuple_cmp(slice[i], min) < 0 THEN slice[i] ELSE min,
                  IF tuple_cmp(slice[i], max) > 0 THEN slice[i] ELSE max>>}})

\* get_min_max: None for an empty slice
get_min_max(slice) ==
  IF slice = <<>> THEN [some |-> FALSE]
  ELSE get_min_max_loop(slice, 2, slice[1], slice[1])

\* the loop of is_unique with compare |a, b| a.0 < b.0, from item i on
RECURSIVE is_unique_loop(_, _, _)
is_unique_loop(slice, i, last_key) ==
  IF i > Len(slice) THEN TRUE
  ELSE IF BytesCmp(slice[i].key, last_key.key) < 0 THEN FALSE
  ELSE is_unique_loop(slice, i + 1, slice[i])

\* is_unique: slice.first().unwrap() panics on an empty slice
is_unique(slice) ==
  IF slice = <<>> THEN [panic |-> TRUE, unique |-> FALSE]
  ELSE [panic |-> FALSE, unique |-> is_unique_loop(slice, 2, slice[1])]

\* the name of the orders the index is sorted in
sorted_str(native_sorted, cbor_sorted) ==
  CASE native_sorted /\ cbor_sorted   -> "native,cbor"
    [] native_sorted /\ ~cbor_sorted  -> "native"
    [] ~native_sorted /\ cbor_sorted  -> "cbor"
    [] OTHER                          -> "false"

\* the part of the report behind ` sorted:` for a loaded index:
\* first().unwrap() and last().unwrap(), min, max and unique
get_info_min_max_unique(indices, native_sorted) ==
  IF indices = <<>>
  THEN [state |-> "panicked", out |-> <<>>]
  ELSE TheOnly({
         LET index_min == IF ~native_sorted /\ mm.some THEN mm.min.key ELSE indices[1].key
             index_max == IF ~native_sorted /\ mm.some THEN mm.max.key
                          ELSE indices[Len(indices)].key
         IN  IF u.panic
             THEN [state |-> "panicked",
                   out   |-> <<InfoLine("min", 0, index_min, ""),
                               InfoLine("max", 0, index_max, "")>>]
             ELSE [state |-> "loop",
                   out   |-> <<InfoLine("min", 0, index_min, ""),
                               InfoLine("max", 0, index_max, ""),
                               InfoLine("unique", 0, <<>>,
                                        IF u.unique THEN "true" ELSE "false")>>]
         : mm \in {get_min_max(indices)}, u \in {is_unique(indices)}})

\* the part of the report for an index file that exists
get_info_index(index_file) ==
  TheOnly({
    IF ~loaded_index.ok
    THEN [state |-> "err", out |-> <<InfoLine("index size", Len(index_file), <<>>, "")>>]
    ELSE TheOnly({
           TheOnly({
             [state |-> rest.state,
              out   |-> <<InfoLine("index size", Len(index_file), <<>>, ""),
                          InfoLine("count", Len(loaded_index.indices), <<>>, ""),
                          InfoLine("sorted", 0, <<>>, sorted_str(native_sorted, cbor_sorted))>>
                        \o rest.out]
             : rest \in {get_info_min_max_unique(loaded_index.indices, native_sorted)},
               cbor_sorted \in {is_cbor_sorted("text", loaded_index.indices)}})
           : native_sorted \in {is_sorted_by(loaded_index.indices)}})
    : loaded_index \in {SSTableIndex_from_path(index_file)}})

\* one turn of the `for input_path` loop of get_info: [state, out]
get_info_path(path) ==
  LET data_file_exists  == path.kind # "missing"
      index_file_exists == path.kind = "indexed"
      data == <<InfoLine("---", 0, <<>>, ""),
                InfoLine("data path", 0, <<>>,
                         IF data_file_exists THEN "exists" ELSE "missing")>>
              \o (IF data_file_exists
                  THEN <<InfoLine("data size", Len(path.file), <<>>, "")>> ELSE <<>>)
              \o <<InfoLine("index path", 0, <<>>,
                            IF index_file_exists THEN "exists" ELSE "missing")>>
  IN  IF ~index_file_exists THEN [state |-> "loop", out |-> data]
      ELSE TheOnly({[state |-> index.state, out |-> data \o index.out] :
                      index \in {get_info_index(path.index_file)}})

InitInfo ==
  /\ data_writer = get_file_writer(<<>>)
  /\ index_writer = get_file_writer(<<>>)
  /\ buffer_size = DEFAULT_BUFFER_SIZE
  /\ kv_type = "text"
  /\ wstate = "closed"
  /\ last_op = "info"
  /\ appended = <<>>
  /\ rd = NoReader
  /\ sstable_index = NoIndex
  /\ mg = NoMerge
  /\ gt = NoGet
  /\ cb = NoCbor
  /\ dump = NoDump
  /\ session = FirstSession
  /\ \E tables \in TableLists(MaxInfoPaths, MaxInfoRecords) :
       \E kinds \in KindLists(Len(tables)) :
         /\ \A p \in 1..Len(tables) : kinds[p] = "missing" => tables[p] = <<>>
         /\ info = [state |-> "loop",
                    paths |-> [p \in 1..Len(tables) |-> GetPathOf(tables[p], kinds[p])],
                    i     |-> 1,
                    out   |-> <<>>]

\* one turn of the loop of get_info
InfoPath ==
  /\ info.state = "loop" /\ info.i <= Len(info.paths)
  /\ \E w \in {get_info_path(info.paths[info.i])} :
       info' = [info EXCEPT !.out = info.out \o w.out,
                            !.i = IF w.state = "loop" THEN info.i + 1 ELSE info.i,
                            !.state = w.state]
  /\ UNCHANGED <<writer_vars, last_op, rd, sstable_index, mg, gt, cb, dump>>

\* the loop is over: Ok(())
InfoReturnOk ==
  /\ info.state = "loop" /\ info.i > Len(info.paths)
  /\ info' = [info EXCEPT !.state = "returned"]
  /\ UNCHANGED <<writer_vars, last_op, rd, sstable_index, mg, gt, cb, dump>>

NextInfo ==
  \/ InfoPath
  \/ InfoReturnOk

SpecInfo == InitInfo /\ [][NextInfo]_vars

(***************************************************************************)
(* Claims about the writer, the index and the reader (checked under Spec). *)
(***************************************************************************)
\* the encoded length of a text item
EncodedLen(text) == Len(Flatten(write_cbor_text(text)))

\* the length of the data records 1..n of the append history
RECURSIVE RecordsLen(_)
RecordsLen(n) ==
  IF n = 0 THEN 0
  ELSE RecordsLen(n - 1) + EncodedLen(appended[n][1]) + EncodedLen(appended[n][2])

\* C1: on a table appended to and then closed, seeking the reader to the
\* offset of the i-th entry of the loaded index and calling next() once
\* yields the key of that entry and the i-th appended record.
C1_SeekThenNextYieldsRecord ==
  (wstate = "closed" /\ sstable_index.loaded /\ rd.sought > 0 /\ Len(rd.log) >= 1) =>
    /\ rd.log[1].item = "Ok"
    /\ rd.log[1].key = sstable_index.indices[rd.sought].key
    /\ <<rd.log[1].key, rd.log[1].value>> = appended[rd.sought]

\* the third entry has been sought and read, its offset past the embedded range
C1_Witness ==
  /\ wstate = "closed" /\ sstable_index.loaded
  /\ rd.sought = 3 /\ Len(rd.log) = 1 /\ rd.log[1].item = "Ok"
  /\ sstable_index.indices[3].offset > EMBEDDED_MAX_AS_U64

\* C2: a new reader iterated from the start of the data file of a closed
\* table yields the appended records in order and then None.
C2_WriteThenReadRoundTrip ==
  (wstate = "closed" /\ rd.open /\ rd.sought = 0) =>
    /\ \A i \in 1..Len(rd.log) :
         IF i <= Len(appended)
         THEN /\ rd.log[i].item = "Ok"
              /\ <<rd.log[i].key, rd.log[i].value>> = appended[i]
         ELSE rd.log[i].item = "None"
    /\ rd.ended => Len(rd.log) = Len(appended) + 1

\* three records read back and the end reached
C2_Witness ==
  /\ wstate = "closed" /\ rd.open /\ rd.sought = 0 /\ rd.ended
  /\ Len(appended) = 3 /\ Len(rd.log) = 4
  /\ \E i \in 1..3 : appended[i][2] = LongValue

\* C3: after appends followed by flush (or close), the index file holds one
\* entry per data record, the i-th entry carrying the key of the i-th record.
C3_IndexParallelToData ==
  (last_op \in {"flush", "close"}) =>
    LET idx  == SSTableIndexFromPath_from_path(kv_type, index_writer.file)
        recs == ReadAll(kv_type, data_writer.file, 0, Len(appended) + 1)
    IN  /\ idx.ok
        /\ Len(recs) = Len(appended)
        /\ Len(idx.indices) = Len(recs)
        /\ \A i \in 1..Len(recs) : idx.indices[i].key = recs[i][1]

\* a flush after the third append
C3_Witness ==
  /\ last_op = "flush" /\ Len(appended) = 3
  /\ Len(SSTableIndexFromPath_from_path(kv_type, index_writer.file).indices) = 3

\* C4: the offset of the i-th index entry is the stream position before the
\* i-th record was written: the total encoded length of the records before
\* it.  Offsets are strictly increasing and pairwise distinct.
C4_OffsetsAreRecordStarts ==
  (wstate = "closed" /\ sstable_index.loaded) =>
    LET idx == sstable_index.indices IN
    /\ Len(idx) = Len(appended)
    /\ \A i \in 1..Len(idx) : idx[i].offset = RecordsLen(i - 1)
    /\ \A i \in 1..(Len(idx) - 1) :
         /\ idx[i + 1].offset = idx[i].offset + EncodedLen(appended[i][1])
                                               + EncodedLen(appended[i][2])
         /\ idx[i].offset < idx[i + 1].offset
    /\ \A i, j \in 1..Len(idx) : i # j => idx[i].offset # idx[j].offset

\* an index of three entries loaded from a closed table
C4_Witness ==
  /\ wstate = "closed" /\ sstable_index.loaded
  /\ Len(sstable_index.indices) = 3
  /\ sstable_index.indices[2].offset > 0

\* the bytes the appends 1..n put into the data file, in append order
RECURSIVE AppendedDataBytes(_)
AppendedDataBytes(n) ==
  IF n = 0 THEN <<>>
  ELSE AppendedDataBytes(n - 1) \o Flatten(write_cbor_key(kv_type, appended[n][1]))
                                \o Flatten(write_cbor_key(kv_type, appended[n][2]))

\* the bytes the appends 1..n put into the index file: the key and the
\* length of the data file before the append
RECURSIVE AppendedIndexBytes(_)
AppendedIndexBytes(n) ==
  IF n = 0 THEN <<>>
  ELSE AppendedIndexBytes(n - 1)
         \o Flatten(write_cbor_key(kv_type, appended[n][1]))
         \o Flatten(write_cbor_unsigned_integer(as_u64(Len(AppendedDataBytes(n - 1)))))

\* C17: after close has returned Ok, both write buffers are empty and the
\* data file and the index file hold every byte of every append made
\* before it, in append order.
C17_CloseLeavesEverythingInFiles ==
  (last_op = "close") =>
    /\ data_writer.buf = <<>>
    /\ index_writer.buf = <<>>
    /\ data_writer.file = AppendedDataBytes(Len(appended))
    /\ index_writer.file = AppendedIndexBytes(Len(appended))

\* three appends through 8 KiB buffers, never flushed, and then close
C17_Witness ==
  /\ last_op = "close"
  /\ buffer_size = DEFAULT_BUFFER_SIZE
  /\ Len(appended) = 3
  /\ Len(data_writer.file) = Len(AppendedDataBytes(3))
  /\ Len(data_writer.file) < DEFAULT_BUFFER_SIZE
  /\ index_writer.file # <<>>

Written(w) == w.file \o w.buf

\* p is s without one or more of its last bytes
IsProperPrefix(p, s) == Len(p) < Len(s) /\ p = SubSeq(s, 1, Len(p))

\* C24: when the k-th sub-write of append((key, value)) fails (data key,
\* data value, index key, index offset), append returns the error with
\* every byte of the earlier appends and of the earlier sub-writes still
\* written, the failed sub-write incomplete and no later sub-write made;
\* a failure after the two data sub-writes leaves a whole data record that
\* has no index entry.
C24_FailedAppendStopsAndUndoesNothing ==
  (last_op = "append_err") =>
    LET f     == session.failed
        n     == Len(appended)
        k_enc == Flatten(write_cbor_key(kv_type, f.key))
        v_enc == Flatten(write_cbor_key(kv_type, f.value))
        o_enc == Flatten(write_cbor_unsigned_integer(as_u64(Len(AppendedDataBytes(n)))))
        data  == Written(data_writer)
        index == Written(index_writer)
        d_new == SubSeq(data, Len(AppendedDataBytes(n)) + 1, Len(data))
        i_new == SubSeq(index, Len(AppendedIndexBytes(n)) + 1, Len(index))
    IN  /\ f.k \in 1..4
        /\ SubSeq(data, 1, Len(AppendedDataBytes(n))) = AppendedDataBytes(n)
        /\ SubSeq(index, 1, Len(AppendedIndexBytes(n))) = AppendedIndexBytes(n)
        /\ f.k = 1 => IsProperPrefix(d_new, k_enc) /\ i_new = <<>>
        /\ f.k = 2 => /\ Len(d_new) >= Len(k_enc)
                      /\ SubSeq(d_new, 1, Len(k_enc)) = k_enc
                      /\ IsProperPrefix(SubSeq(d_new, Len(k_enc) + 1, Len(d_new)), v_enc)
                      /\ i_new = <<>>
        /\ f.k = 3 => d_new = k_enc \o v_enc /\ IsProperPrefix(i_new, k_enc)
        /\ f.k = 4 => /\ d_new = k_enc \o v_enc
                      /\ Len(i_new) >= Len(k_enc)
                      /\ SubSeq(i_new, 1, Len(k_enc)) = k_enc
                      /\ IsProperPrefix(SubSeq(i_new, Len(k_enc) + 1, Len(i_new)), o_enc)

\* the index-key sub-write of an append failed after an earlier append had
\* gone through: the data file side holds one record more than the index
C24_Witness ==
  /\ last_op = "append_err"
  /\ session.failed.k = 3
  /\ Len(appended) >= 1
  /\ Len(Written(data_writer)) > Len(AppendedDataBytes(Len(appended)))

(***************************************************************************)
(* Claims about the index loader (checked under SpecIndex).                *)
(***************************************************************************)

\* C19: the index loader returns the entries in the order they have in the
\* file, without sorting them; it returns the empty list for a file of zero
\* bytes; it stops without an error when the file ends at the boundary of
\* an entry, and it returns an error when the file ends inside an entry.
C19_LoaderKeepsFileOrderAndFailsInsideEntry ==
  sstable_index.loaded =>
    LET file == index_writer.file
        whole == {k \in 0..Len(appended) : file = AppendedIndexBytes(k)}
    IN  /\ (file = <<>>) => (sstable_index.ok /\ sstable_index.indices = <<>>)
        /\ (whole = {}) => ~sstable_index.ok
        /\ \A k \in whole :
             /\ sstable_index.ok
             /\ Len(sstable_index.indices) = k
             /\ \A i \in 1..k :
                  /\ sstable_index.indices[i].key = appended[i][1]
                  /\ sstable_index.indices[i].offset = Len(AppendedDataBytes(i - 1))

\* the index of three records cut behind its second entry, the first key
\* greater than the second: two entries are returned, in file order
C19_Witness ==
  /\ sstable_index.loaded
  /\ sstable_index.ok
  /\ Len(appended) = 3
  /\ index_writer.file = AppendedIndexBytes(2)
  /\ Len(sstable_index.indices) = 2
  /\ BytesCmp(sstable_index.indices[1].key, sstable_index.indices[2].key) > 0

(***************************************************************************)
(* Claims about merge (checked under SpecMerge).                           *)
(***************************************************************************)
\* the places (input, record number) of the records of the inputs
MergeInputSlots ==
  UNION {{<<p, i>> : i \in 1..Len(mg.inputs[p].records)} : p \in 1..Len(mg.inputs)}

\* how often the record (k, v) occurs in the inputs, and in the output
MergeInputCount(k, v) ==
  Cardinality({s \in MergeInputSlots : mg.inputs[s[1]].records[s[2]] = <<k, v>>})

MergeEmittedCount(k, v) ==
  Cardinality({i \in 1..Len(mg.emitted) :
                 mg.emitted[i].key = k /\ mg.emitted[i].value = v})

\* C5: on inputs with sorted indexes and valid offsets and a sink that
\* takes every record, merge does not fail,
\* the keys it emits are non-decreasing, it emits no record more often than
\* the inputs hold it, and when it returns it has emitted every record of
\* the inputs exactly as often as they hold it.
C5_MergeIsSortedPermutation ==
  (mg.state \in {"loop", "ok", "err", "panic"} /\ mg.damaged = 0 /\ ~mg.emit_failed) =>
    /\ mg.state \in {"loop", "ok"}
    /\ \A i \in 1..(Len(mg.emitted) - 1) :
         BytesCmp(mg.emitted[i].key, mg.emitted[i + 1].key) <= 0
    /\ \A k \in Keys, v \in Values : MergeEmittedCount(k, v) <= MergeInputCount(k, v)
    /\ (mg.state = "ok") =>
         \A k \in Keys, v \in Values : MergeEmittedCount(k, v) = MergeInputCount(k, v)

\* a merge of two inputs returned after three records, the first of them
\* from the second input, the keys not all equal
C5_Witness ==
  /\ mg.state = "ok" /\ mg.damaged = 0
  /\ Len(mg.inputs) = 2 /\ Len(mg.emitted) = 3
  /\ mg.emitted[1].pair_index = 1
  /\ mg.emitted[1].key # mg.emitted[3].key
  /\ \E i \in 1..3 : mg.emitted[i].pair_index = 0

\* C6: of two emitted records with equal keys, the one emitted first comes
\* from the earlier input, or from the same input at a smaller index cursor.
C6_TiesByInputThenCursor ==
  (mg.state \in {"loop", "ok", "err", "panic"}) =>
    \A i, j \in 1..Len(mg.emitted) :
      (i < j /\ mg.emitted[i].key = mg.emitted[j].key) =>
        \/ mg.emitted[i].pair_index < mg.emitted[j].pair_index
        \/ /\ mg.emitted[i].pair_index = mg.emitted[j].pair_index
           /\ mg.emitted[i].index_pos < mg.emitted[j].index_pos

\* C10: when the reader reports end-of-file at the offset of a popped index
\* entry, merge returns an error to its caller (it does not panic).
C10_EofAtOffsetReturnsError ==
  (mg.state \in {"loop", "ok", "err", "panic"} /\ mg.eof) => mg.state = "err"

\* C11: a turn of the merge loop in which the sink's emit fails leaves merge
\* returned with the error, the emitted records as they were before; once
\* emit has failed merge takes no further step (no seek, read or emit).
C11_EmitErrorEndsMerge ==
  [][/\ (mg.state = "loop" /\ mg'.emit_failed) =>
          (mg'.state = "err" /\ mg'.emitted = mg.emitted)
     /\ (mg.state # "start" /\ mg.emit_failed) => mg' = mg]_vars

\* emit failed after a record was emitted, with entries left on the heap
C11_Witness ==
  /\ mg.state = "err" /\ mg.emit_failed
  /\ Len(mg.emitted) >= 1 /\ mg.heap # {}

\* the positions of `emitted` that came from input p (1-based), in order
RECURSIVE EmittedOf(_, _)
EmittedOf(p, n) ==
  IF n = 0 THEN <<>>
  ELSE IF mg.emitted[n].pair_index = p - 1
       THEN Append(EmittedOf(p, n - 1), mg.emitted[n])
       ELSE EmittedOf(p, n - 1)

\* C20: merging an empty list of inputs, or inputs whose indexes are all
\* empty, emits nothing and does not fail; an input whose index is empty is
\* never on the heap and its reader is never touched, and every other input
\* is emitted whole and in the order of its index all the same.
C20_EmptyInputsAreInert ==
  /\ [](mg.state # "idle" =>
          LET empty == {p \in 1..Len(mg.inputs) : mg.inputs[p].indices = <<>>} IN
          /\ \A e \in mg.heap : e.pair_index + 1 \notin empty
          /\ \A i \in 1..Len(mg.emitted) : mg.emitted[i].pair_index + 1 \notin empty
          /\ (empty = 1..Len(mg.inputs)) =>
               /\ mg.emitted = <<>>
               /\ mg.state \in {"start", "loop", "ok"}
               /\ (mg.state = "loop" => ENABLED MergeReturnOk)
          /\ (mg.state = "ok" /\ ~mg.emit_failed) =>
               \A p \in 1..Len(mg.inputs) :
                 LET out == EmittedOf(p, Len(mg.emitted)) IN
                 /\ Len(out) = Len(mg.inputs[p].indices)
                 /\ \A i \in 1..Len(out) :
                      /\ out[i].index_pos = i - 1
                      /\ out[i].key = mg.inputs[p].indices[i].key)
  /\ [][mg.state # "idle" =>
          \A p \in 1..Len(mg.inputs) :
            mg.inputs[p].indices = <<>> => mg'.inputs[p] = mg.inputs[p]]_vars

\* a merge of an empty table and a table of three records that has
\* returned Ok with the three records emitted
C20_Witness ==
  /\ mg.state = "ok"
  /\ Len(mg.inputs) = 2
  /\ mg.inputs[1].indices = <<>>
  /\ Len(mg.inputs[2].indices) = 3
  /\ Len(mg.emitted) = 3
  /\ mg.inputs[1].pos = 0

\* the records were appended in non-decreasing key order
InKeyOrder(records) ==
  \A i \in 1..(Len(records) - 1) : BytesCmp(records[i][1], records[i + 1][1]) <= 0

\* what merge has emitted, as the (key, value) pairs a reader yields
EmittedRecords == [i \in 1..Len(mg.emitted) |-> <<mg.emitted[i].key, mg.emitted[i].value>>]

\* C21 as stated: for every single input, the records merge has emitted
\* when it returns Ok are the records the input's reader yields from the
\* start of its data file, in that order.
C21_SingleInputMergeEqualsRead ==
  (mg.state = "ok" /\ Len(mg.inputs) = 1 /\ ~mg.emit_failed) =>
    EmittedRecords = ReadAll("text", mg.inputs[1].file, 0, Len(mg.inputs[1].records) + 1)

\* C21 amended: for a single input whose records were appended in
\* non-decreasing key order, the records merge has emitted when it returns
\* Ok are the records the input's reader yields from the start of its data
\* file, in that order (records of one key keep their file order).
C21_SortedSingleInputMergeEqualsRead ==
  (mg.state = "ok" /\ Len(mg.inputs) = 1 /\ ~mg.emit_failed
     /\ InKeyOrder(mg.inputs[1].records)) =>
    EmittedRecords = ReadAll("text", mg.inputs[1].file, 0, Len(mg.inputs[1].records) + 1)

\* one input of three records in key order, two of them with one key and
\* different values, merged
C21_Witness ==
  /\ mg.state = "ok"
  /\ Len(mg.inputs) = 1
  /\ Len(mg.inputs[1].records) = 3
  /\ InKeyOrder(mg.inputs[1].records)
  /\ mg.inputs[1].records[1][1] = mg.inputs[1].records[2][1]
  /\ mg.inputs[1].records[1][2] # mg.inputs[1].records[2][2]
  /\ Len(mg.emitted) = 3

\* the last index entry of input p (1-based) has been emitted
MergeExhausted(p) ==
  \E i \in 1..Len(mg.emitted) :
    /\ mg.emitted[i].pair_index = p - 1
    /\ mg.emitted[i].index_pos = Len(mg.inputs[p].indices) - 1

\* C29: in every state of a merge the heap holds at most one entry of an
\* input, so no more entries than there are inputs; the cursor of every
\* entry is a position of its input's index and its key and offset are the
\* index entry there; an input whose last index entry has been emitted has
\* no entry on the heap.
C29_HeapHoldsOneValidEntryPerInput ==
  (mg.state # "idle") =>
    /\ \A e1, e2 \in mg.heap : e1.pair_index = e2.pair_index => e1 = e2
    /\ Cardinality(mg.heap) <= Len(mg.inputs)
    /\ \A e \in mg.heap :
         /\ e.pair_index + 1 \in 1..Len(mg.inputs)
         /\ e.index_pos \in 0..(Len(mg.inputs[e.pair_index + 1].indices) - 1)
         /\ e.key = mg.inputs[e.pair_index + 1].indices[e.index_pos + 1].key
         /\ e.offset = mg.inputs[e.pair_index + 1].indices[e.index_pos + 1].offset
         /\ ~MergeExhausted(e.pair_index + 1)

\* two inputs in the loop: the first is exhausted and off the heap, the
\* second is on the heap with its cursor past the first entry
C29_Witness ==
  /\ mg.state = "loop"
  /\ Len(mg.inputs) = 2
  /\ MergeExhausted(1)
  /\ Cardinality(mg.heap) = 1
  /\ \E e \in mg.heap : e.pair_index = 1 /\ e.index_pos >= 1

\* the number of index entries of the inputs 1..p
RECURSIVE MergeIndexEntries(_)
MergeIndexEntries(p) ==
  IF p = 0 THEN 0 ELSE MergeIndexEntries(p - 1) + Len(mg.inputs[p].indices)

\* how often the index entry at cursor index_pos of input p has been emitted
MergeEmitCount(p, index_pos) ==
  Cardinality({i \in 1..Len(mg.emitted) :
                 mg.emitted[i].pair_index = p - 1 /\ mg.emitted[i].index_pos = index_pos})

\* C30: merge always terminates.  It ends in an error only when a read or
\* an emit has failed; when it returns Ok the heap is empty and every index
\* entry of every input has been sought, read and emitted exactly once, so
\* the number of emitted records is the sum of the lengths of the indexes.
C30_MergeTerminatesAfterOneEmitPerEntry ==
  /\ <>(mg.state \in {"ok", "err", "panic"})
  /\ [](mg.state \in {"err", "panic"} => (mg.emit_failed \/ mg.damaged # 0))
  /\ [](mg.state = "ok" =>
          /\ mg.heap = {}
          /\ Len(mg.emitted) = MergeIndexEntries(Len(mg.inputs))
          /\ \A p \in 1..Len(mg.inputs) :
               \A index_pos \in 0..(Len(mg.inputs[p].indices) - 1) :
                 MergeEmitCount(p, index_pos) = 1)

\* a merge of two tables that hold three records together has returned Ok
\* after three emits
C30_Witness ==
  /\ mg.state = "ok"
  /\ Len(mg.inputs) = 2
  /\ mg.inputs[1].indices # <<>>
  /\ mg.inputs[2].indices # <<>>
  /\ MergeIndexEntries(2) = 3
  /\ Len(mg.emitted) = 3
  /\ mg.heap = {}

(***************************************************************************)
(* Claims about get (checked under SpecGet).                               *)
(***************************************************************************)
\* the records were appended in non-decreasing key order
GetSorted(records) ==
  \A i \in 1..(Len(records) - 1) : BytesCmp(records[i][1], records[i + 1][1]) <= 0

\* the values of the records with the key, in write order
GetValuesWithKey(records, key) ==
  LET sel == SelectSeq(records, LAMBDA r : r[1] = key) IN
  [i \in 1..Len(sel) |-> sel[i][2]]

\* the first n elements of seq, all of them for None or a short seq
GetFirstN(seq, n) ==
  IF n = <<>> \/ n[1] >= Len(seq) THEN seq ELSE SubSeq(seq, 1, n[1])

\* C7: when get has returned over tables written in key order, a key that
\* some path's table holds has been emitted (a miss in the index of an
\* earlier path has not ended the scan).
C7_MissContinuesWithNextPath ==
  (/\ gt.state = "returned"
   /\ \A p \in 1..Len(gt.paths) : GetSorted(gt.paths[p].records)
   /\ \E p \in 1..Len(gt.paths) :
        \E i \in 1..Len(gt.paths[p].records) : gt.paths[p].records[i][1] = gt.key)
  => \E l \in 1..Len(gt.out) :
       gt.out[l].kind \in {"kv", "v"} /\ gt.out[l].value \in Values

\* C8: on the index branch, for one table written in key order that holds
\* the key c >= 1 times, the values emitted are those of the first
\* min(n, c) records with the key, in write order (all c for None).
C8_IndexedGetEmitsFirstOccurrences ==
  (/\ gt.state \in {"loop", "returned", "err"}
   /\ gt.variant \in {"get_rs", "cli_main"}
   /\ Len(gt.paths) = 1 /\ gt.i = 2
   /\ gt.paths[1].kind = "indexed"
   /\ GetSorted(gt.paths[1].records)
   /\ \E i \in 1..Len(gt.paths[1].records) : gt.paths[1].records[i][1] = gt.key)
  => [l \in 1..Len(gt.out) |-> gt.out[l].value]
       = GetFirstN(GetValuesWithKey(gt.paths[1].records, gt.key), gt.n)

\* the slow path is taken for the path the loop is at: its data file
\* exists and the variant has no index branch or the index file is absent
GetScansLinearly ==
  /\ gt.state = "loop" /\ gt.i <= Len(gt.paths)
  /\ gt.paths[gt.i].kind # "missing"
  /\ gt.variant = "sstable_cli_main" \/ gt.paths[gt.i].kind = "no_index"

\* the number of records among the first j that have the key
GetCountWithKey(records, key, j) ==
  Cardinality({i \in 1..j : records[i][1] = key})

\* where the data file's record j ends
GetRecordEnd(records, j) == Len(WriteTable(SubSeq(records, 1, j)).data_writer.file)

\* where a scan for the key with cap n stops reading: behind the n-th
\* record with the key, at the end of the file when there are fewer
GetScanEnd(records, key, n) ==
  IF n # <<>> /\ GetCountWithKey(records, key, Len(records)) >= n[1]
  THEN GetRecordEnd(records,
         CHOOSE j \in 1..Len(records) :
           records[j][1] = key /\ GetCountWithKey(records, key, j) = n[1])
  ELSE GetRecordEnd(records, Len(records))

\* C25: on the slow path get reads the data file from its start and writes
\* the value of each record with key k, in file order, until n values are
\* written: min(n, c) values for c records with the key (all c for None),
\* reading no record behind the n-th; the absent index is no error.
C25_LinearScanEmitsFirstMatches ==
  [][GetScansLinearly =>
       LET records  == gt.paths[gt.i].records
           expected == GetFirstN(GetValuesWithKey(records, gt.key), gt.n)
       IN  /\ gt'.state = "loop"
           /\ gt'.i = gt.i + 1
           /\ Len(gt'.out) = Len(gt.out) + Len(expected)
           /\ SubSeq(gt'.out, 1, Len(gt.out)) = gt.out
           /\ \A l \in 1..Len(expected) :
                /\ gt'.out[Len(gt.out) + l].kind = "v"
                /\ gt'.out[Len(gt.out) + l].value = expected[l]
           /\ gt'.scanned = GetScanEnd(records, gt.key, gt.n)]_vars

\* a table without index file holds the key three times, the cap is two:
\* the scan has written the first two values and stopped before the third
C25_Witness ==
  /\ gt.state = "loop"
  /\ gt.variant = "get_rs"
  /\ gt.i = 2
  /\ gt.paths[1].kind = "no_index"
  /\ GetCountWithKey(gt.paths[1].records, gt.key, Len(gt.paths[1].records)) = 3
  /\ gt.n = <<2>>
  /\ Len(gt.out) = 2
  /\ gt.scanned < Len(gt.paths[1].file)

\* the values on the lines of an output
GetValuesOf(out) == [l \in 1..Len(out) |-> out[l].value]

\* C28: for one table appended in non-decreasing key order, a key and a
\* cap, get over the table with its index file (binary search, seek, scan
\* while the key is equal) emits the values that get emits over the same
\* data file without index file (linear scan).
C28_IndexedGetEqualsLinearGet ==
  (/\ gt.state \in {"loop", "returned", "err"}
   /\ gt.variant \in {"get_rs", "cli_main"}
   /\ Len(gt.paths) = 1
   /\ gt.paths[1].kind = "indexed"
   /\ gt.i = 2 \/ gt.state = "returned"
   /\ GetSorted(gt.paths[1].records))
  => GetValuesOf(gt.out)
       = GetValuesOf(get_kv_by_linear_search(gt.paths[1].file, 0, gt.key, gt.n, 0).out)

\* how often the message for path p is in the output
MissingLineCount(p) ==
  Cardinality({j \in 1..Len(gt.out) : gt.out[j].kind = "missing" /\ gt.out[j].value = p})

RECURSIVE DumpRecordsFrom(_)
DumpRecordsFrom(p) ==
  IF p > Len(dump.paths) THEN <<>>
  ELSE (IF dump.paths[p].kind = "missing" THEN <<>> ELSE dump.paths[p].records)
         \o DumpRecordsFrom(p + 1)

\* the records dump has written, in the order of the lines
DumpedRecords ==
  LET lines == SelectSeq(dump.out, LAMBDA l : l.kind = "record") IN
  [l \in 1..Len(lines) |-> <<lines[l].key, lines[l].value>>]

\* C26: dump streams every record of every existing path of its list, in
\* list order: when it has returned, the records written are those of all
\* the existing paths, and the end of a data file that is not the last of
\* the list takes the command to the next path.
C26_DumpStreamsEveryPath ==
  /\ [](dump.state = "returned" => DumpedRecords = DumpRecordsFrom(1))
  /\ [][(/\ dump.state = "loop" /\ dump.i < Len(dump.paths)
         /\ dump.paths[dump.i].kind # "missing")
        => (dump'.state = "loop" /\ dump'.i = dump.i + 1)]_vars

(***************************************************************************)
(* Claims about info (checked under SpecInfo).                             *)
(***************************************************************************)
\* the lines `count` of the report, one for each index file loaded
InfoCountLines == SelectSeq(info.out, LAMBDA l : l.kind = "count")

\* the paths before p whose index file exists
InfoIndexedBefore(p) ==
  {q \in 1..(p - 1) : q <= Len(info.paths) /\ info.paths[q].kind = "indexed"}

\* C27: a table whose index file is empty is valid input for info: the
\* report never panics or fails, and when it has gone past the table it has
\* written an entry count of 0 for it.
C27_EmptyIndexIsValidForInfo ==
  /\ info.state \notin {"panicked", "err"}
  /\ info.state \in {"loop", "returned"} =>
       \A p \in 1..Len(info.paths) :
         (p < info.i /\ info.paths[p].kind = "indexed" /\ info.paths[p].index_file = <<>>)
           => InfoCountLines[Cardinality(InfoIndexedBefore(p)) + 1].num = 0

(***************************************************************************)
(* Claims about the reader on arbitrary files (checked under SpecReader).  *)
(***************************************************************************)
\* C9: next() returns None exactly when end-of-file is hit at the first
\* byte of a record (the call starts at or past the end of the file); a
\* call that starts inside the file and runs into end-of-file returns
\* Some(Err).
C9_NoneOnlyAtRecordStart ==
  \A i \in 1..Len(rd.log) :
    (rd.log[i].item = "None") <=> (rd.log[i].at >= Len(data_writer.file))

====
